---------------------------- MODULE Spec2Model ----------------------------
(***************************************************************************)
(* Reflow oven controller (src/ReflowOven/ReflowOven.ino, config.h).       *)
(*                                                                         *)
(* One behaviour of the model is one execution of the firmware between two *)
(* boots.  loop() is modelled handler by handler: the variable pc names    *)
(* the handler that runs next, in the order loop() calls them.             *)
(*                                                                         *)
(* Temperatures are fixed-point numbers, TempScale units per degree C, so  *)
(* that the ADC conversion and the ten-sample mean are exact.  The gains   *)
(* of the PID controller are in units of 1/GainScale.                      *)
(*                                                                         *)
(* Time.  The firmware only ever subtracts a stored timestamp from         *)
(* millis() (unsigned, wrap-safe) and compares the difference with a       *)
(* threshold.  The model keeps the clock in a frame that moves with it:    *)
(* millis() always reads `millis`, a timestamp taken d ms ago reads        *)
(* millis - d, and advancing the clock by d (action Tick) moves every      *)
(* stored timestamp d into the past.  A timestamp older than the largest   *)
(* threshold it is ever compared with is kept at that age (its horizon).   *)
(* All calls of millis() inside one loop() iteration read the same value.  *)
(***************************************************************************)
EXTENDS Integers, Sequences, FiniteSets, TLC

(***************************************************************************)
(* Enumerations (ReflowOven.ino 29-78)                                     *)
(***************************************************************************)
STATE_IDLE == "IDLE"
STATE_PREHEATING == "PREHEATING"
STATE_SOAKING == "SOAKING"
STATE_REFLOW == "REFLOW"
STATE_COOLING == "COOLING"
STATE_HEATING == "HEATING"
STATE_MAINTAINING == "MAINTAINING"
STATE_COMPLETE == "COMPLETE"
STATE_ERROR == "ERROR"

SystemState ==
  {STATE_IDLE, STATE_PREHEATING, STATE_SOAKING, STATE_REFLOW, STATE_COOLING,
   STATE_HEATING, STATE_MAINTAINING, STATE_COMPLETE, STATE_ERROR}

MODE_IDLE == "Idle"
MODE_REFLOW == "Reflow"
MODE_FILAMENT == "Filament"

SCREEN_MAIN == "SCREEN_MAIN"
SCREEN_MENU == "SCREEN_MENU"
SCREEN_MODE_SELECT == "SCREEN_MODE_SELECT"
SCREEN_REFLOW_SETTINGS == "SCREEN_REFLOW_SETTINGS"
SCREEN_FILAMENT_SETTINGS == "SCREEN_FILAMENT_SETTINGS"
SCREEN_NETWORK_SETTINGS == "SCREEN_NETWORK_SETTINGS"
SCREEN_SYSTEM_INFO == "SCREEN_SYSTEM_INFO"
SCREEN_EDIT_VALUE == "SCREEN_EDIT_VALUE"
SCREEN_CONFIRM_START == "SCREEN_CONFIRM_START"
SCREEN_FILAMENT_TYPE == "SCREEN_FILAMENT_TYPE"

FILAMENT_CUSTOM == 0
FILAMENT_PLA == 1
FILAMENT_PETG == 2
FILAMENT_ABS == 3
FILAMENT_NYLON == 4
FILAMENT_TPU == 5

ERROR_NONE == 0
ERROR_OVER_TEMP == 1
ERROR_SENSOR_FAIL == 2
ERROR_THERMAL_RUNAWAY == 3
ERROR_TIMEOUT == 7

(***************************************************************************)
(* config.h                                                                *)
(***************************************************************************)
REFLOW_MAX_TEMP == 260
FILAMENT_MAX_TEMP == 100
TEMP_CALIB_OFFSET == -30
ADC_REFERENCE_VOLTAGE == 3200      \* 3.2 V, in mV
AD8495_OFFSET_VOLTAGE == 1250      \* 1.25 V, in mV
AD8495_MV_PER_C == 5               \* 0.005 V per degree, in mV
ADC_FULL_SCALE == 1023
TEMP_SAMPLE_COUNT == 10
TEMP_OUTLIER_THRESHOLD == 10
SENSOR_OPEN_THRESHOLD == 1000
SENSOR_SHORT_THRESHOLD == 10
GainScale == 10                    \* the gains below are in tenths
REFLOW_KP == 20                    \* 2.0
REFLOW_KI == 5                     \* 0.5
REFLOW_KD == 10                    \* 1.0
FILAMENT_KP == 15                  \* 1.5
FILAMENT_KI == 3                   \* 0.3
FILAMENT_KD == 8                   \* 0.8
PWM_MIN_ON_TIME == 100
REFLOW_TIMEOUT == 600
THERMAL_RUNAWAY_TEMP_RISE == 5
THERMAL_RUNAWAY_TIME == 30000
REFLOW_PREHEAT_TEMP == 130
REFLOW_SOAK_TEMP_MIN == 130
REFLOW_SOAK_TEMP_MAX == 160
REFLOW_SOAK_DURATION == 90
REFLOW_PEAK_TEMP == 210
REFLOW_COOLING_TEMP == 80
REFLOW_PEAK_TEMP_MIN == 195
REFLOW_PEAK_TEMP_MAX == 230
REFLOW_SOAK_TEMP_CONFIG_MIN == 120
REFLOW_SOAK_TEMP_CONFIG_MAX == 170
REFLOW_SOAK_DURATION_MIN == 60
REFLOW_SOAK_DURATION_MAX == 120
FILAMENT_PLA_TEMP == 45
FILAMENT_PLA_TIME == 240
FILAMENT_PETG_TEMP == 65
FILAMENT_PETG_TIME == 240
FILAMENT_ABS_TEMP == 70
FILAMENT_ABS_TIME == 240
FILAMENT_NYLON_TEMP == 80
FILAMENT_NYLON_TIME == 360
FILAMENT_TPU_TEMP == 50
FILAMENT_TPU_TIME == 240
FILAMENT_TEMP_MIN == 40
FILAMENT_TEMP_MAX == 100
FILAMENT_TIME_MIN == 60
FILAMENT_TIME_MAX == 1440
BUTTON_LONG_PRESS_TIME == 2000
BUTTON_START_PRESS_TIME == 5000
ENCODER_ACCEL_THRESHOLD == 50

(* Literals of ReflowOven.ino *)
TEMP_READ_INTERVAL == 100          \* loop(): currentMillis - lastTempRead >= 100
PID_INTERVAL == 1000               \* loop(): currentMillis - lastPidUpdate >= 1000
SSR_PERIOD == 1000                 \* controlSSR(): cyclePosition >= 1000
SSR_DUTY_MAX == 255                \* updatePID(): ssrDutyCycle = 255
PID_INTEGRAL_LIMIT == 100          \* updatePID(): constrain(pidIntegral, -100, 100)
PID_OUTPUT_MAX == 100              \* updatePID(): constrain(pidOutput, 0, 100)
PID_FULL_POWER_BAND == 10          \* updatePID(): currentTemp < targetTemp - 10
HEATING_MARGIN == 2                \* updateStateMachine(): filamentTemp - 2
mainMenuCount == 6
modeMenuCount == 3
reflowMenuCount == 4
filamentMenuCount == 4
filamentTypeCount == 7
networkMenuCount == 3

TempScale == TEMP_SAMPLE_COUNT * ADC_FULL_SCALE

Deg(c) == c * TempScale

Max(a, b) == IF a >= b THEN a ELSE b

Min(a, b) == IF a <= b THEN a ELSE b

constrain(x, lo, hi) == IF x < lo THEN lo ELSE IF x > hi THEN hi ELSE x

abs(x) == IF x > 0 THEN x ELSE -x

(***************************************************************************)
(* The inputs of the model and their bounds. A behaviour is one run of the *)
(* firmware between two boots. Eight specifications drive the oven's loop  *)
(* with different inputs: Spec (every command and the menu, a short time), *)
(* SpecThermal (the readings and the clock of the safety checks),          *)
(* SpecSensor (a shorted probe, over two operations), SpecDrying (a whole  *)
(* filament operation), SpecReflow (a whole reflow operation), SpecWindow  *)
(* (passes less than one duty-cycle window apart, and the clock moving     *)
(* between the millis() of loop() and of controlSSR), SpecOverride (the    *)
(* MQTT commands without the menu) and SpecCooling (a reflow operation     *)
(* with a target override).  SpecShop and SpecRuntime drive the shop       *)
(* thermostat.                                                             *)
(***************************************************************************)
(* the passes of loop() that find the clock advanced *)
MaxTicks == 2

MaxThermalTicks == 4

MaxWindowTicks == 3

(* the clicks of the encoder *)
MaxTurns == 1

(* the time between two passes of loop(), in ms *)
Deltas == {0, BUTTON_START_PRESS_TIME}

ThermalDeltas == {0, BUTTON_START_PRESS_TIME, REFLOW_TIMEOUT * 1000}

DryingDeltas == {0, BUTTON_START_PRESS_TIME, FILAMENT_PLA_TIME * 60 * 1000}

ReflowDeltas == {0, BUTTON_START_PRESS_TIME, REFLOW_SOAK_DURATION * 1000}

WindowDeltas == {0, SSR_PERIOD - 1, BUTTON_START_PRESS_TIME}

(* the ms that pass between the millis() of loop() (409) and the millis() of
   controlSSR (604) in the same pass *)
NoSkew == {0}

Skews == {0, 1}

(* analogRead() codes: a shorted probe, 60.3, 214.9 and 299.9 degrees, an
   open probe *)
ADC_SHORT == 5

ADC_WARM == 544

ADC_HOT == 791

ADC_TOO_HOT == 927

ADC_OPEN == 1010

AdcValues == {ADC_HOT, ADC_OPEN}

ThermalAdcValues == {ADC_HOT, ADC_TOO_HOT}

SensorAdcValues == {ADC_SHORT, ADC_HOT}

DryingAdcValues == {ADC_WARM, ADC_HOT}

ReflowAdcValues == {ADC_HOT, ADC_TOO_HOT, ADC_OPEN}

WindowAdcValues == {ADC_HOT}

Turns == {-1, 0, 1}

NoTurns == {0}

Requests == {"none", "POST /api/stop"}

NoRequests == {"none"}

SET_TEMP_LOW == 50

SET_TEMP_HIGH == 150

Messages ==
  {[topic |-> "none", payload |-> 0],
   [topic |-> "command/stop", payload |-> 0],
   [topic |-> "command/set_temp", payload |-> SET_TEMP_LOW],
   [topic |-> "command/set_temp", payload |-> SET_TEMP_HIGH],
   [topic |-> "command/set_mode", payload |-> "reflow"],
   [topic |-> "command/set_mode", payload |-> "filament"]}

ModeMessages ==
  {[topic |-> "none", payload |-> 0],
   [topic |-> "command/set_mode", payload |-> "reflow"],
   [topic |-> "command/set_mode", payload |-> "filament"]}

ReflowMessages ==
  {[topic |-> "none", payload |-> 0],
   [topic |-> "command/set_mode", payload |-> "reflow"]}

SensorMessages ==
  {[topic |-> "none", payload |-> 0],
   [topic |-> "command/stop", payload |-> 0],
   [topic |-> "command/set_mode", payload |-> "filament"]}

(***************************************************************************)
(* The clock frame and the horizon of each timestamp.                      *)
(***************************************************************************)
millis == (FILAMENT_TIME_MAX * 60 + 2) * 1000

HorizonOperation == (FILAMENT_TIME_MAX * 60 + 1) * 1000

HorizonPhase == REFLOW_SOAK_DURATION_MAX * 1000

HorizonHeaterOff == THERMAL_RUNAWAY_TIME + 1

Aged(t, d, horizon) == Max(t - d, millis - horizon)

(***************************************************************************)
(* The program's globals (ReflowOven.ino 93-252), the SSR pin, and the     *)
(* position of loop().                                                     *)
(***************************************************************************)
VARIABLES
  systemState, operatingMode, currentScreen, lastError,
  currentTemp, targetTemp, tempHistory, tempHistoryIndex,
  pidKp, pidKi, pidKd, pidIntegral, pidLastError, pidOutput,
  operationStartTime, operationDuration, phaseStartTime,
  lastTempRead, lastPidUpdate,
  buttonPressStart, buttonPressed, buttonLongPressHandled,
  lastEncoderTime,
  ssrCycleStart, ssrState, ssrDutyCycle,
  reflowPeakTemp, reflowSoakTemp, reflowSoakDuration,
  selectedFilament, filamentTemp, filamentDuration,
  menuIndex, editValue, editMin, editMax, editTarget,
  heaterOffTemp, heaterOffTime, heaterWasOn,
  pinSSR,
  pc, ticks, turns, called,
  sampled, onSinceStart, offEdgeTime, offEdgeTemp

(* The shop thermostat (src/shopThermostat, src/unnamed/part_001..007) is a
   second program with its own state: the controller's _zoneState
   (control.h 13-26), the configuration's zones and water (storage.h 27-38,
   68-69), the temperature manager's _readings, _sensorFaultTime and
   _sensorFault (temperature.h), the clock and the timers of its loop()
   (part_001 51-52), and two pieces of history: runawaySeen, the zones where
   a control update has seen a valid temperature above the runaway limit
   since the last resetThermalRunaway, and changeGap, the shortest time
   between two consecutive state changes of each relay.  shopTicks counts
   the passes of its loop().  The oven never touches them and the
   thermostat never touches the oven's variables. *)
VARIABLES
  zoneState, zones, water, readings, sensorFaultTime, sensorFault,
  shopMillis, shopLastTempRead, lastControlUpdate, runawaySeen, changeGap,
  shopTicks

shopVars ==
  <<zoneState, zones, water, readings, sensorFaultTime, sensorFault,
    shopMillis, shopLastTempRead, lastControlUpdate, runawaySeen,
    changeGap, shopTicks>>

ovenVars ==
  <<systemState, operatingMode, currentScreen, lastError,
    currentTemp, targetTemp, tempHistory, tempHistoryIndex,
    pidKp, pidKi, pidKd, pidIntegral, pidLastError, pidOutput,
    operationStartTime, operationDuration, phaseStartTime,
    lastTempRead, lastPidUpdate,
    buttonPressStart, buttonPressed, buttonLongPressHandled,
    lastEncoderTime,
    ssrCycleStart, ssrState, ssrDutyCycle,
    reflowPeakTemp, reflowSoakTemp, reflowSoakDuration,
    selectedFilament, filamentTemp, filamentDuration,
    menuIndex, editValue, editMin, editMax, editTarget,
    heaterOffTemp, heaterOffTime, heaterWasOn,
    pinSSR,
    pc, ticks, turns, called,
    sampled, onSinceStart, offEdgeTime, offEdgeTemp>>

vars == <<ovenVars, shopVars>>

(* The globals as one record: the functions below map records to records.
   Four fields are history the program does not keep: called and sampled
   (what the statement that ran last called and sampled), onSinceStart (the
   pin went high since the last start) and offEdgeTime/offEdgeTemp (when the
   pin last went low, and the reading then).  Commit maintains the last
   three from the pin and the state alone. *)
G ==
  [systemState |-> systemState, operatingMode |-> operatingMode,
   currentScreen |-> currentScreen, lastError |-> lastError,
   currentTemp |-> currentTemp, targetTemp |-> targetTemp,
   tempHistory |-> tempHistory, tempHistoryIndex |-> tempHistoryIndex,
   pidKp |-> pidKp, pidKi |-> pidKi, pidKd |-> pidKd,
   pidIntegral |-> pidIntegral, pidLastError |-> pidLastError,
   pidOutput |-> pidOutput,
   operationStartTime |-> operationStartTime,
   operationDuration |-> operationDuration,
   phaseStartTime |-> phaseStartTime,
   lastTempRead |-> lastTempRead, lastPidUpdate |-> lastPidUpdate,
   buttonPressStart |-> buttonPressStart, buttonPressed |-> buttonPressed,
   buttonLongPressHandled |-> buttonLongPressHandled,
   lastEncoderTime |-> lastEncoderTime,
   ssrCycleStart |-> ssrCycleStart, ssrState |-> ssrState,
   ssrDutyCycle |-> ssrDutyCycle,
   reflowPeakTemp |-> reflowPeakTemp, reflowSoakTemp |-> reflowSoakTemp,
   reflowSoakDuration |-> reflowSoakDuration,
   selectedFilament |-> selectedFilament, filamentTemp |-> filamentTemp,
   filamentDuration |-> filamentDuration,
   menuIndex |-> menuIndex, editValue |-> editValue, editMin |-> editMin,
   editMax |-> editMax, editTarget |-> editTarget,
   heaterOffTemp |-> heaterOffTemp, heaterOffTime |-> heaterOffTime,
   heaterWasOn |-> heaterWasOn,
   pinSSR |-> pinSSR,
   called |-> called, sampled |-> sampled,
   onSinceStart |-> onSinceStart,
   offEdgeTime |-> offEdgeTime, offEdgeTemp |-> offEdgeTemp]

Commit(s) ==
  /\ systemState' = s.systemState
  /\ operatingMode' = s.operatingMode
  /\ currentScreen' = s.currentScreen
  /\ lastError' = s.lastError
  /\ currentTemp' = s.currentTemp
  /\ targetTemp' = s.targetTemp
  /\ tempHistory' = s.tempHistory
  /\ tempHistoryIndex' = s.tempHistoryIndex
  /\ pidKp' = s.pidKp
  /\ pidKi' = s.pidKi
  /\ pidKd' = s.pidKd
  /\ pidIntegral' = s.pidIntegral
  /\ pidLastError' = s.pidLastError
  /\ pidOutput' = s.pidOutput
  /\ operationStartTime' = s.operationStartTime
  /\ operationDuration' = s.operationDuration
  /\ phaseStartTime' = s.phaseStartTime
  /\ lastTempRead' = s.lastTempRead
  /\ lastPidUpdate' = s.lastPidUpdate
  /\ buttonPressStart' = s.buttonPressStart
  /\ buttonPressed' = s.buttonPressed
  /\ buttonLongPressHandled' = s.buttonLongPressHandled
  /\ lastEncoderTime' = s.lastEncoderTime
  /\ ssrCycleStart' = s.ssrCycleStart
  /\ ssrState' = s.ssrState
  /\ ssrDutyCycle' = s.ssrDutyCycle
  /\ reflowPeakTemp' = s.reflowPeakTemp
  /\ reflowSoakTemp' = s.reflowSoakTemp
  /\ reflowSoakDuration' = s.reflowSoakDuration
  /\ selectedFilament' = s.selectedFilament
  /\ filamentTemp' = s.filamentTemp
  /\ filamentDuration' = s.filamentDuration
  /\ menuIndex' = s.menuIndex
  /\ editValue' = s.editValue
  /\ editMin' = s.editMin
  /\ editMax' = s.editMax
  /\ editTarget' = s.editTarget
  /\ heaterOffTemp' = s.heaterOffTemp
  /\ heaterOffTime' = s.heaterOffTime
  /\ heaterWasOn' = s.heaterWasOn
  /\ pinSSR' = s.pinSSR
  /\ called' = s.called
  /\ sampled' = s.sampled
  /\ onSinceStart' =
       IF /\ systemState = STATE_IDLE
          /\ s.systemState \in {STATE_PREHEATING, STATE_HEATING}
         THEN FALSE
         ELSE IF s.pinSSR /\ ~pinSSR THEN TRUE ELSE s.onSinceStart
  /\ offEdgeTime' = IF pinSSR /\ ~s.pinSSR THEN millis ELSE s.offEdgeTime
  /\ offEdgeTemp' = IF pinSSR /\ ~s.pinSSR THEN s.currentTemp ELSE s.offEdgeTemp
  /\ UNCHANGED shopVars

(* The functions a handler called, in call order; cleared when the handler
   starts.  It records what ran, for the statements about what a call did. *)
Call(s, name) == [s EXCEPT !.called = Append(@, name)]

CalledIn(log, name) == \E i \in DOMAIN log : log[i] = name

Called(name) == CalledIn(called, name)

NoSample == -1

(***************************************************************************)
(* Safety: emergencyShutdown (692-714)                                     *)
(***************************************************************************)
emergencyShutdown(s, error) ==
  [Call(s, "emergencyShutdown") EXCEPT
     !.pinSSR = FALSE,
     !.ssrState = FALSE,
     !.ssrDutyCycle = 0,
     !.lastError = error,
     !.systemState = STATE_ERROR]

(***************************************************************************)
(* Temperature: readTemperature, filterTemperature, checkSensorFailure     *)
(* (486-548)                                                               *)
(***************************************************************************)
checkSensorFailure(s, adcValue) ==
  IF adcValue > SENSOR_OPEN_THRESHOLD
    THEN [ret |-> TRUE, s |-> emergencyShutdown(s, ERROR_SENSOR_FAIL)]
    ELSE IF adcValue < SENSOR_SHORT_THRESHOLD /\ s.heaterWasOn
      THEN [ret |-> TRUE, s |-> emergencyShutdown(s, ERROR_SENSOR_FAIL)]
      ELSE [ret |-> FALSE, s |-> s]

(* voltage = adcValue * 3.2 / 1023.0, in mV * TempScale (exact) *)
AdcVoltage(adcValue) ==
  adcValue * ADC_REFERENCE_VOLTAGE * (TempScale \div ADC_FULL_SCALE)

(* rawTemp = (voltage - 1.25) / 0.005 + tempCalibOffset *)
AdcToTemp(adcValue) ==
  (AdcVoltage(adcValue) - AD8495_OFFSET_VOLTAGE * TempScale) \div AD8495_MV_PER_C
    + Deg(TEMP_CALIB_OFFSET)

HistoryIndex == 0 .. (TEMP_SAMPLE_COUNT - 1)

RECURSIVE SumValid(_, _)
(* the sum of the f[i] > 0 over i in 0..n-1 (the first loop, 506-511) *)
SumValid(f, n) ==
  IF n = 0 THEN 0
  ELSE SumValid(f, n - 1) + (IF f[n - 1] > 0 THEN f[n - 1] ELSE 0)

RECURSIVE SumAll(_, _)
(* the sum of f[i] over i in 0..n-1 (the second loop, 526-529) *)
SumAll(f, n) == IF n = 0 THEN 0 ELSE SumAll(f, n - 1) + f[n - 1]

filterTemperature(s, rawTemp) ==
  LET sum == SumValid(s.tempHistory, TEMP_SAMPLE_COUNT)
      validCount == Cardinality({i \in HistoryIndex : s.tempHistory[i] > 0})
      avg == sum \div validCount
      history == [s.tempHistory EXCEPT ![s.tempHistoryIndex] = rawTemp]
  IN  IF validCount > 0 /\ abs(rawTemp - avg) > Deg(TEMP_OUTLIER_THRESHOLD)
        THEN [ret |-> avg, s |-> Call(s, "filterTemperature:reject")]
        ELSE [ret |-> SumAll(history, TEMP_SAMPLE_COUNT) \div TEMP_SAMPLE_COUNT,
              s |-> [Call(s, "filterTemperature:accept") EXCEPT
                       !.tempHistory = history,
                       !.tempHistoryIndex =
                          (s.tempHistoryIndex + 1) % TEMP_SAMPLE_COUNT]]

(* readTemperature without the return at 490-492: a faulty sample is
   converted and filtered like a good one *)
readTemperature_FiltersFaulty(s, adcValue) ==
  LET failed == checkSensorFailure(Call(s, "readTemperature"), adcValue)
      filtered == filterTemperature(failed.s, AdcToTemp(adcValue))
  IN  [filtered.s EXCEPT !.currentTemp = filtered.ret]

readTemperature(s, adcValue) ==
  LET failed == checkSensorFailure(Call(s, "readTemperature"), adcValue)
      filtered == filterTemperature(failed.s, AdcToTemp(adcValue))
  IN  IF failed.ret
        THEN failed.s
        ELSE [filtered.s EXCEPT !.currentTemp = filtered.ret]

(***************************************************************************)
(* PID control: updatePID, setPIDParams, controlSSR (554-637)              *)
(***************************************************************************)
MulGain(k, x) == (k * x) \div GainScale

(* (int)(pidOutput * 2.55): the product is a double, and 100.0 * 2.55 is
   254.99999999999997 *)
ScaleDuty(output) ==
  IF output = Deg(PID_OUTPUT_MAX)
    THEN SSR_DUTY_MAX - 1
    ELSE (output * SSR_DUTY_MAX) \div Deg(PID_OUTPUT_MAX)

(* updatePID without the constrain of the integral at 562 *)
updatePID_Unclamped(s) ==
  LET error == s.targetTemp - s.currentTemp
      pTerm == MulGain(s.pidKp, error)
      integral == s.pidIntegral + error
      iTerm == MulGain(s.pidKi, integral)
      dTerm == MulGain(s.pidKd, error - s.pidLastError)
      output == constrain(pTerm + iTerm + dTerm, 0, Deg(PID_OUTPUT_MAX))
  IN  [Call(s, "updatePID") EXCEPT
         !.pidIntegral = integral,
         !.pidLastError = error,
         !.pidOutput = output,
         !.ssrDutyCycle =
            IF s.currentTemp < s.targetTemp - Deg(PID_FULL_POWER_BAND)
              THEN SSR_DUTY_MAX
              ELSE IF s.currentTemp > s.targetTemp
                THEN 0
                ELSE ScaleDuty(output)]

updatePID(s) ==
  LET error == s.targetTemp - s.currentTemp
      pTerm == MulGain(s.pidKp, error)
      integral == constrain(s.pidIntegral + error,
                            Deg(-PID_INTEGRAL_LIMIT), Deg(PID_INTEGRAL_LIMIT))
      iTerm == MulGain(s.pidKi, integral)
      dTerm == MulGain(s.pidKd, error - s.pidLastError)
      output == constrain(pTerm + iTerm + dTerm, 0, Deg(PID_OUTPUT_MAX))
  IN  [Call(s, "updatePID") EXCEPT
         !.pidIntegral = integral,
         !.pidLastError = error,
         !.pidOutput = output,
         !.ssrDutyCycle =
            IF s.currentTemp < s.targetTemp - Deg(PID_FULL_POWER_BAND)
              THEN SSR_DUTY_MAX
              ELSE IF s.currentTemp > s.targetTemp
                THEN 0
                ELSE ScaleDuty(output)]

(* setPIDParams without the reset of the controller state at 597-600 *)
setPIDParams_KeepsState(s, mode) ==
  [s EXCEPT
     !.pidKp = IF mode = MODE_REFLOW THEN REFLOW_KP ELSE FILAMENT_KP,
     !.pidKi = IF mode = MODE_REFLOW THEN REFLOW_KI ELSE FILAMENT_KI,
     !.pidKd = IF mode = MODE_REFLOW THEN REFLOW_KD ELSE FILAMENT_KD]

setPIDParams(s, mode) ==
  [s EXCEPT
     !.pidKp = IF mode = MODE_REFLOW THEN REFLOW_KP ELSE FILAMENT_KP,
     !.pidKi = IF mode = MODE_REFLOW THEN REFLOW_KI ELSE FILAMENT_KI,
     !.pidKd = IF mode = MODE_REFLOW THEN REFLOW_KD ELSE FILAMENT_KD,
     !.pidIntegral = 0,
     !.pidLastError = 0,
     !.pidOutput = 0]

(* the on-time without the minimum-on-time rule at 618-620 *)
OnTime_NoMinimum(duty) == (duty * SSR_PERIOD) \div SSR_DUTY_MAX

OnTime(duty) ==
  LET onTime == (duty * SSR_PERIOD) \div SSR_DUTY_MAX
  IN  IF onTime > 0 /\ onTime < PWM_MIN_ON_TIME THEN PWM_MIN_ON_TIME ELSE onTime

controlSSR(s) ==
  LET currentMillis == millis
      wrap == currentMillis - s.ssrCycleStart >= SSR_PERIOD
      cyclePosition == IF wrap THEN 0 ELSE currentMillis - s.ssrCycleStart
      newState == cyclePosition < OnTime(s.ssrDutyCycle) /\ s.ssrDutyCycle > 0
      s1 == [Call(s, "controlSSR") EXCEPT
               !.ssrCycleStart = IF wrap THEN currentMillis ELSE @]
  IN  IF newState # s.ssrState
        THEN IF newState
               THEN [s1 EXCEPT !.ssrState = TRUE, !.pinSSR = TRUE,
                               !.heaterWasOn = TRUE]
               ELSE IF s.heaterWasOn
                 THEN [s1 EXCEPT !.ssrState = FALSE, !.pinSSR = FALSE,
                                 !.heaterOffTemp = s.currentTemp,
                                 !.heaterOffTime = currentMillis]
                 ELSE [s1 EXCEPT !.ssrState = FALSE, !.pinSSR = FALSE]
        ELSE s1

(***************************************************************************)
(* Safety: checkSafetyConditions and its three checks (643-690)            *)
(***************************************************************************)
(* the ceiling of reflow mode in every mode *)
MaxTempOf_Reflow(mode) == REFLOW_MAX_TEMP

MaxTempOf(mode) ==
  IF mode = MODE_REFLOW THEN REFLOW_MAX_TEMP ELSE FILAMENT_MAX_TEMP

checkOverTemperature(s) ==
  IF s.currentTemp > Deg(MaxTempOf(s.operatingMode))
    THEN [ret |-> TRUE, s |-> emergencyShutdown(s, ERROR_OVER_TEMP)]
    ELSE [ret |-> FALSE, s |-> s]

(* checkThermalRunaway without the 30 s window of 670 *)
checkThermalRunaway_NoWindow(s) ==
  IF ~s.heaterWasOn \/ s.ssrState
    THEN [ret |-> FALSE, s |-> s]
    ELSE IF s.currentTemp - s.heaterOffTemp > Deg(THERMAL_RUNAWAY_TEMP_RISE)
      THEN [ret |-> TRUE, s |-> emergencyShutdown(s, ERROR_THERMAL_RUNAWAY)]
      ELSE [ret |-> FALSE, s |-> s]

checkThermalRunaway(s) ==
  LET timeSinceOff == millis - s.heaterOffTime
      tempRise == s.currentTemp - s.heaterOffTemp
  IN  IF ~s.heaterWasOn \/ s.ssrState
        THEN [ret |-> FALSE, s |-> s]
        ELSE IF timeSinceOff > THERMAL_RUNAWAY_TIME
                /\ tempRise > Deg(THERMAL_RUNAWAY_TEMP_RISE)
          THEN [ret |-> TRUE, s |-> emergencyShutdown(s, ERROR_THERMAL_RUNAWAY)]
          ELSE [ret |-> FALSE, s |-> s]

MaxDurationOf(s) ==
  IF s.operatingMode = MODE_REFLOW THEN REFLOW_TIMEOUT ELSE s.filamentDuration * 60

ElapsedSeconds(since) == (millis - since) \div 1000

(* checkTimeout tripping at the limit, not past it *)
checkTimeout_AtLimit(s) ==
  IF ElapsedSeconds(s.operationStartTime) >= MaxDurationOf(s)
    THEN [ret |-> TRUE, s |-> emergencyShutdown(s, ERROR_TIMEOUT)]
    ELSE [ret |-> FALSE, s |-> s]

(* checkTimeout measuring from the start of the phase, not of the operation *)
checkTimeout_SincePhase(s) ==
  IF ElapsedSeconds(s.phaseStartTime) > MaxDurationOf(s)
    THEN [ret |-> TRUE, s |-> emergencyShutdown(s, ERROR_TIMEOUT)]
    ELSE [ret |-> FALSE, s |-> s]

checkTimeout(s) ==
  IF ElapsedSeconds(s.operationStartTime) > MaxDurationOf(s)
    THEN [ret |-> TRUE, s |-> emergencyShutdown(s, ERROR_TIMEOUT)]
    ELSE [ret |-> FALSE, s |-> s]

checkSafetyConditions(s) ==
  IF s.systemState = STATE_IDLE \/ s.systemState = STATE_ERROR
    THEN s
    ELSE LET s0 == Call(s, "checkSafetyConditions")
             over == checkOverTemperature(s0)
             runaway == checkThermalRunaway(over.s)
             timeout == checkTimeout(runaway.s)
         IN  IF over.ret THEN over.s
             ELSE IF runaway.ret THEN runaway.s
             ELSE timeout.s

(***************************************************************************)
(* State machine: updateStateMachine, startOperation, stopOperation,       *)
(* transitionToState (720-854)                                             *)
(***************************************************************************)
(* transitionToState without the assignment of phaseStartTime at 819 *)
transitionToState_KeepsPhaseStart(s, newState) ==
  LET s1 == [Call(s, "transitionToState") EXCEPT !.systemState = newState]
  IN  IF s.operatingMode = MODE_REFLOW
        THEN CASE newState = STATE_PREHEATING ->
                    [s1 EXCEPT !.targetTemp = Deg(s.reflowSoakTemp)]
               [] newState = STATE_SOAKING ->
                    [s1 EXCEPT !.targetTemp =
                       Deg((REFLOW_SOAK_TEMP_MIN + REFLOW_SOAK_TEMP_MAX) \div 2)]
               [] newState = STATE_REFLOW ->
                    [s1 EXCEPT !.targetTemp = Deg(s.reflowPeakTemp)]
               [] newState = STATE_COOLING ->
                    [s1 EXCEPT !.targetTemp = 0, !.ssrDutyCycle = 0]
               [] newState = STATE_COMPLETE ->
                    [s1 EXCEPT !.targetTemp = 0, !.ssrDutyCycle = 0]
               [] OTHER -> s1
        ELSE s1

transitionToState(s, newState) ==
  LET s1 == [Call(s, "transitionToState") EXCEPT
               !.systemState = newState, !.phaseStartTime = millis]
  IN  IF s.operatingMode = MODE_REFLOW
        THEN CASE newState = STATE_PREHEATING ->
                    [s1 EXCEPT !.targetTemp = Deg(s.reflowSoakTemp)]
               [] newState = STATE_SOAKING ->
                    [s1 EXCEPT !.targetTemp =
                       Deg((REFLOW_SOAK_TEMP_MIN + REFLOW_SOAK_TEMP_MAX) \div 2)]
               [] newState = STATE_REFLOW ->
                    [s1 EXCEPT !.targetTemp = Deg(s.reflowPeakTemp)]
               [] newState = STATE_COOLING ->
                    [s1 EXCEPT !.targetTemp = 0, !.ssrDutyCycle = 0]
               [] newState = STATE_COMPLETE ->
                    [s1 EXCEPT !.targetTemp = 0, !.ssrDutyCycle = 0]
               [] OTHER -> s1
        ELSE s1

(* updateStateMachine completing a filament operation past its duration,
   not at it (765) *)
updateStateMachine_CompleteLate(s) ==
  LET phaseElapsed == ElapsedSeconds(s.phaseStartTime)
      totalElapsed == ElapsedSeconds(s.operationStartTime)
  IN  CASE s.systemState = STATE_PREHEATING ->
             IF s.currentTemp >= Deg(s.reflowSoakTemp)
               THEN transitionToState(s, STATE_SOAKING) ELSE s
        [] s.systemState = STATE_SOAKING ->
             IF phaseElapsed >= s.reflowSoakDuration
               THEN transitionToState(s, STATE_REFLOW) ELSE s
        [] s.systemState = STATE_REFLOW ->
             IF s.currentTemp >= Deg(s.reflowPeakTemp)
               THEN transitionToState(s, STATE_COOLING) ELSE s
        [] s.systemState = STATE_COOLING ->
             IF s.currentTemp <= Deg(REFLOW_COOLING_TEMP)
               THEN transitionToState(s, STATE_COMPLETE) ELSE s
        [] s.systemState = STATE_HEATING ->
             IF s.operatingMode = MODE_FILAMENT
                /\ s.currentTemp >= Deg(s.filamentTemp - HEATING_MARGIN)
               THEN transitionToState(s, STATE_MAINTAINING) ELSE s
        [] s.systemState = STATE_MAINTAINING ->
             IF s.operatingMode = MODE_FILAMENT
                /\ totalElapsed > s.filamentDuration * 60
               THEN transitionToState(s, STATE_COMPLETE) ELSE s
        [] OTHER -> s

(* updateStateMachine going from Preheating to Reflow, past Soaking *)
updateStateMachine_SkipsSoak(s) ==
  LET phaseElapsed == ElapsedSeconds(s.phaseStartTime)
      totalElapsed == ElapsedSeconds(s.operationStartTime)
  IN  CASE s.systemState = STATE_PREHEATING ->
             IF s.currentTemp >= Deg(s.reflowSoakTemp)
               THEN transitionToState(s, STATE_REFLOW) ELSE s
        [] s.systemState = STATE_SOAKING ->
             IF phaseElapsed >= s.reflowSoakDuration
               THEN transitionToState(s, STATE_REFLOW) ELSE s
        [] s.systemState = STATE_REFLOW ->
             IF s.currentTemp >= Deg(s.reflowPeakTemp)
               THEN transitionToState(s, STATE_COOLING) ELSE s
        [] s.systemState = STATE_COOLING ->
             IF s.currentTemp <= Deg(REFLOW_COOLING_TEMP)
               THEN transitionToState(s, STATE_COMPLETE) ELSE s
        [] s.systemState = STATE_HEATING ->
             IF s.operatingMode = MODE_FILAMENT
                /\ s.currentTemp >= Deg(s.filamentTemp - HEATING_MARGIN)
               THEN transitionToState(s, STATE_MAINTAINING) ELSE s
        [] s.systemState = STATE_MAINTAINING ->
             IF s.operatingMode = MODE_FILAMENT
                /\ totalElapsed >= s.filamentDuration * 60
               THEN transitionToState(s, STATE_COMPLETE) ELSE s
        [] OTHER -> s

updateStateMachine(s) ==
  LET phaseElapsed == ElapsedSeconds(s.phaseStartTime)
      totalElapsed == ElapsedSeconds(s.operationStartTime)
  IN  CASE s.systemState = STATE_PREHEATING ->
             IF s.currentTemp >= Deg(s.reflowSoakTemp)
               THEN transitionToState(s, STATE_SOAKING) ELSE s
        [] s.systemState = STATE_SOAKING ->
             IF phaseElapsed >= s.reflowSoakDuration
               THEN transitionToState(s, STATE_REFLOW) ELSE s
        [] s.systemState = STATE_REFLOW ->
             IF s.currentTemp >= Deg(s.reflowPeakTemp)
               THEN transitionToState(s, STATE_COOLING) ELSE s
        [] s.systemState = STATE_COOLING ->
             IF s.currentTemp <= Deg(REFLOW_COOLING_TEMP)
               THEN transitionToState(s, STATE_COMPLETE) ELSE s
        [] s.systemState = STATE_HEATING ->
             IF s.operatingMode = MODE_FILAMENT
                /\ s.currentTemp >= Deg(s.filamentTemp - HEATING_MARGIN)
               THEN transitionToState(s, STATE_MAINTAINING) ELSE s
        [] s.systemState = STATE_MAINTAINING ->
             IF s.operatingMode = MODE_FILAMENT
                /\ totalElapsed >= s.filamentDuration * 60
               THEN transitionToState(s, STATE_COMPLETE) ELSE s
        [] OTHER -> s

(* startOperation without the test of systemState at 775 *)
startOperation_Unguarded(s) ==
  LET s1 == setPIDParams(
              [Call(s, "startOperation") EXCEPT
                 !.operationStartTime = millis,
                 !.phaseStartTime = millis,
                 !.heaterWasOn = FALSE],
              s.operatingMode)
  IN  IF s.operatingMode = MODE_REFLOW
        THEN [transitionToState(
                [s1 EXCEPT !.targetTemp = Deg(s.reflowSoakTemp)],
                STATE_PREHEATING)
              EXCEPT !.operationDuration = REFLOW_TIMEOUT]
        ELSE IF s.operatingMode = MODE_FILAMENT
          THEN [transitionToState(
                  [s1 EXCEPT !.targetTemp = Deg(s.filamentTemp)],
                  STATE_HEATING)
                EXCEPT !.operationDuration = s.filamentDuration * 60]
          ELSE s1

(* startOperation without the reset of heaterWasOn at 781 *)
startOperation_KeepsHeaterWasOn(s) ==
  IF s.systemState # STATE_IDLE
    THEN Call(s, "startOperation:rejected")
    ELSE LET s1 == setPIDParams(
                     [Call(s, "startOperation") EXCEPT
                        !.operationStartTime = millis,
                        !.phaseStartTime = millis],
                     s.operatingMode)
         IN  IF s.operatingMode = MODE_REFLOW
               THEN [transitionToState(
                       [s1 EXCEPT !.targetTemp = Deg(s.reflowSoakTemp)],
                       STATE_PREHEATING)
                     EXCEPT !.operationDuration = REFLOW_TIMEOUT]
               ELSE IF s.operatingMode = MODE_FILAMENT
                 THEN [transitionToState(
                         [s1 EXCEPT !.targetTemp = Deg(s.filamentTemp)],
                         STATE_HEATING)
                       EXCEPT !.operationDuration = s.filamentDuration * 60]
                 ELSE s1

startOperation(s) ==
  IF s.systemState # STATE_IDLE
    THEN Call(s, "startOperation:rejected")
    ELSE LET s1 == setPIDParams(
                     [Call(s, "startOperation") EXCEPT
                        !.operationStartTime = millis,
                        !.phaseStartTime = millis,
                        !.heaterWasOn = FALSE],
                     s.operatingMode)
         IN  IF s.operatingMode = MODE_REFLOW
               THEN [transitionToState(
                       [s1 EXCEPT !.targetTemp = Deg(s.reflowSoakTemp)],
                       STATE_PREHEATING)
                     EXCEPT !.operationDuration = REFLOW_TIMEOUT]
               ELSE IF s.operatingMode = MODE_FILAMENT
                 THEN [transitionToState(
                         [s1 EXCEPT !.targetTemp = Deg(s.filamentTemp)],
                         STATE_HEATING)
                       EXCEPT !.operationDuration = s.filamentDuration * 60]
                 ELSE s1

(* stopOperation without the assignment of operatingMode at 810 *)
stopOperation_KeepsMode(s) ==
  transitionToState(
    [Call(s, "stopOperation") EXCEPT
       !.pinSSR = FALSE, !.ssrState = FALSE, !.ssrDutyCycle = 0,
       !.targetTemp = 0],
    STATE_IDLE)

(* stopOperation without the assignments of ssrState and ssrDutyCycle at
   804-805 *)
stopOperation_KeepsHeater(s) ==
  [transitionToState(
     [Call(s, "stopOperation") EXCEPT !.pinSSR = FALSE, !.targetTemp = 0],
     STATE_IDLE)
   EXCEPT !.operatingMode = MODE_IDLE]

stopOperation(s) ==
  [transitionToState(
     [Call(s, "stopOperation") EXCEPT
        !.pinSSR = FALSE, !.ssrState = FALSE, !.ssrDutyCycle = 0,
        !.targetTemp = 0],
     STATE_IDLE)
   EXCEPT !.operatingMode = MODE_IDLE]

(***************************************************************************)
(* Menu: handleMenuNavigation, handleMenuSelect, handleMenuBack            *)
(* (1228-1419)                                                             *)
(***************************************************************************)
NULLPTR == "nullptr"

handleMenuNavigation(s, direction) ==
  LET maxIndex ==
        CASE s.currentScreen = SCREEN_MENU -> mainMenuCount - 1
          [] s.currentScreen = SCREEN_MODE_SELECT -> modeMenuCount - 1
          [] s.currentScreen = SCREEN_REFLOW_SETTINGS -> reflowMenuCount - 1
          [] s.currentScreen = SCREEN_FILAMENT_SETTINGS -> filamentMenuCount - 1
          [] s.currentScreen = SCREEN_FILAMENT_TYPE -> filamentTypeCount - 1
          [] s.currentScreen = SCREEN_NETWORK_SETTINGS -> networkMenuCount - 1
          [] OTHER -> -1
  IN  IF maxIndex < 0
        THEN s
        ELSE [s EXCEPT !.menuIndex = constrain(s.menuIndex + direction, 0, maxIndex)]

Edit(s, value, min, max, target) ==
  [s EXCEPT !.editValue = value, !.editMin = min, !.editMax = max,
            !.editTarget = target, !.currentScreen = SCREEN_EDIT_VALUE]

FilamentPreset(s, type) ==
  CASE type = FILAMENT_PLA ->
         [s EXCEPT !.filamentTemp = FILAMENT_PLA_TEMP,
                   !.filamentDuration = FILAMENT_PLA_TIME]
    [] type = FILAMENT_PETG ->
         [s EXCEPT !.filamentTemp = FILAMENT_PETG_TEMP,
                   !.filamentDuration = FILAMENT_PETG_TIME]
    [] type = FILAMENT_ABS ->
         [s EXCEPT !.filamentTemp = FILAMENT_ABS_TEMP,
                   !.filamentDuration = FILAMENT_ABS_TIME]
    [] type = FILAMENT_NYLON ->
         [s EXCEPT !.filamentTemp = FILAMENT_NYLON_TEMP,
                   !.filamentDuration = FILAMENT_NYLON_TIME]
    [] type = FILAMENT_TPU ->
         [s EXCEPT !.filamentTemp = FILAMENT_TPU_TEMP,
                   !.filamentDuration = FILAMENT_TPU_TIME]
    [] OTHER -> s

handleMenuSelect(s) ==
  LET i == s.menuIndex
      s0 == Call(s, "handleMenuSelect")
  IN  CASE s.currentScreen = SCREEN_MENU ->
             CASE i = 0 -> [s0 EXCEPT !.currentScreen = SCREEN_MODE_SELECT, !.menuIndex = 0]
               [] i = 1 -> [s0 EXCEPT !.currentScreen = SCREEN_REFLOW_SETTINGS, !.menuIndex = 0]
               [] i = 2 -> [s0 EXCEPT !.currentScreen = SCREEN_FILAMENT_SETTINGS, !.menuIndex = 0]
               [] i = 3 -> [s0 EXCEPT !.currentScreen = SCREEN_NETWORK_SETTINGS, !.menuIndex = 0]
               [] i = 4 -> [s0 EXCEPT !.currentScreen = SCREEN_SYSTEM_INFO]
               [] i = 5 -> [s0 EXCEPT !.currentScreen = SCREEN_MAIN]
               [] OTHER -> s0
        [] s.currentScreen = SCREEN_MODE_SELECT ->
             CASE i = 0 -> [s0 EXCEPT !.operatingMode = MODE_REFLOW, !.currentScreen = SCREEN_MAIN]
               [] i = 1 -> [s0 EXCEPT !.operatingMode = MODE_FILAMENT, !.currentScreen = SCREEN_MAIN]
               [] i = 2 -> [s0 EXCEPT !.currentScreen = SCREEN_MENU, !.menuIndex = 0]
               [] OTHER -> s0
        [] s.currentScreen = SCREEN_REFLOW_SETTINGS ->
             CASE i = 0 -> Edit(s0, s.reflowPeakTemp, REFLOW_PEAK_TEMP_MIN,
                                REFLOW_PEAK_TEMP_MAX, "reflowPeakTemp")
               [] i = 1 -> Edit(s0, s.reflowSoakTemp, REFLOW_SOAK_TEMP_CONFIG_MIN,
                                REFLOW_SOAK_TEMP_CONFIG_MAX, "reflowSoakTemp")
               [] i = 2 -> Edit(s0, s.reflowSoakDuration, REFLOW_SOAK_DURATION_MIN,
                                REFLOW_SOAK_DURATION_MAX, "reflowSoakDuration")
               [] i = 3 -> [s0 EXCEPT !.currentScreen = SCREEN_MENU, !.menuIndex = 1]
               [] OTHER -> s0
        [] s.currentScreen = SCREEN_FILAMENT_SETTINGS ->
             CASE i = 0 -> [s0 EXCEPT !.currentScreen = SCREEN_FILAMENT_TYPE,
                                      !.menuIndex = s.selectedFilament]
               [] i = 1 -> Edit(s0, s.filamentTemp, FILAMENT_TEMP_MIN,
                                FILAMENT_TEMP_MAX, "filamentTemp")
               [] i = 2 -> Edit(s0, s.filamentDuration, FILAMENT_TIME_MIN,
                                FILAMENT_TIME_MAX, "filamentDuration")
               [] i = 3 -> [s0 EXCEPT !.currentScreen = SCREEN_MENU, !.menuIndex = 2]
               [] OTHER -> s0
        [] s.currentScreen = SCREEN_FILAMENT_TYPE ->
             IF i = filamentTypeCount - 1
               THEN [s0 EXCEPT !.currentScreen = SCREEN_FILAMENT_SETTINGS, !.menuIndex = 0]
               ELSE [FilamentPreset(s0, i) EXCEPT
                       !.selectedFilament = i,
                       !.currentScreen = SCREEN_FILAMENT_SETTINGS,
                       !.menuIndex = 0]
        [] s.currentScreen = SCREEN_NETWORK_SETTINGS ->
             IF i = networkMenuCount - 1
               THEN [s0 EXCEPT !.currentScreen = SCREEN_MENU, !.menuIndex = 3]
               ELSE s0
        [] s.currentScreen = SCREEN_SYSTEM_INFO ->
             [s0 EXCEPT !.currentScreen = SCREEN_MENU, !.menuIndex = 4]
        [] OTHER -> s0

handleMenuBack(s) ==
  CASE s.currentScreen = SCREEN_MENU -> [s EXCEPT !.currentScreen = SCREEN_MAIN]
    [] s.currentScreen \in {SCREEN_MODE_SELECT, SCREEN_REFLOW_SETTINGS,
                            SCREEN_FILAMENT_SETTINGS, SCREEN_NETWORK_SETTINGS,
                            SCREEN_SYSTEM_INFO} ->
         [s EXCEPT !.currentScreen = SCREEN_MENU, !.menuIndex = 0]
    [] s.currentScreen = SCREEN_FILAMENT_TYPE ->
         [s EXCEPT !.currentScreen = SCREEN_FILAMENT_SETTINGS, !.menuIndex = 0]
    [] s.currentScreen = SCREEN_EDIT_VALUE ->
         \* the test of currentScreen inside this case (1409) is never true
         [s EXCEPT !.currentScreen = SCREEN_FILAMENT_SETTINGS]
    [] s.currentScreen = SCREEN_CONFIRM_START ->
         [s EXCEPT !.currentScreen = SCREEN_MAIN]
    [] OTHER -> s

(***************************************************************************)
(* Input: handleEncoder, handleButton (1133-1226)                          *)
(***************************************************************************)
(* turn: the sign of encoderPosition - lastPosition, 0 when they are equal *)
handleEncoder(s, turn) ==
  LET step == IF millis - s.lastEncoderTime < ENCODER_ACCEL_THRESHOLD THEN 5 ELSE 1
      s1 == [s EXCEPT !.lastEncoderTime = millis]
  IN  IF turn = 0
        THEN s
        ELSE IF s.currentScreen = SCREEN_EDIT_VALUE
          THEN [s1 EXCEPT !.editValue =
                  constrain(s.editValue + turn * step, s.editMin, s.editMax)]
          ELSE handleMenuNavigation(s1, turn)

StoreEdit(s) ==
  CASE s.editTarget = "reflowPeakTemp" -> [s EXCEPT !.reflowPeakTemp = s.editValue]
    [] s.editTarget = "reflowSoakTemp" -> [s EXCEPT !.reflowSoakTemp = s.editValue]
    [] s.editTarget = "reflowSoakDuration" -> [s EXCEPT !.reflowSoakDuration = s.editValue]
    [] s.editTarget = "filamentTemp" -> [s EXCEPT !.filamentTemp = s.editValue]
    [] s.editTarget = "filamentDuration" -> [s EXCEPT !.filamentDuration = s.editValue]
    [] OTHER -> s

acknowledgeFault(s) ==
  [Call(s, "acknowledge") EXCEPT
     !.lastError = ERROR_NONE,
     !.systemState = STATE_IDLE,
     !.currentScreen = SCREEN_MAIN]

ButtonHeld(s) ==
  LET holdTime == millis - s.buttonPressStart
  IN  IF holdTime >= BUTTON_START_PRESS_TIME /\ ~s.buttonLongPressHandled
        THEN LET s1 == [s EXCEPT !.buttonLongPressHandled = TRUE]
             IN  IF s.currentScreen = SCREEN_MAIN
                   THEN IF s.systemState = STATE_IDLE /\ s.operatingMode # MODE_IDLE
                          THEN [s1 EXCEPT !.currentScreen = SCREEN_CONFIRM_START]
                          ELSE IF s.systemState # STATE_IDLE /\ s.systemState # STATE_ERROR
                            THEN stopOperation(s1)
                            ELSE s1
                   ELSE s1
        ELSE IF holdTime >= BUTTON_LONG_PRESS_TIME /\ ~s.buttonLongPressHandled
          THEN IF s.currentScreen # SCREEN_MAIN /\ s.currentScreen # SCREEN_CONFIRM_START
                 THEN handleMenuBack([s EXCEPT !.buttonLongPressHandled = TRUE])
                 ELSE s
          ELSE s

ButtonReleased(s) ==
  LET holdTime == millis - s.buttonPressStart
      s1 == IF holdTime < BUTTON_LONG_PRESS_TIME /\ ~s.buttonLongPressHandled
              THEN IF s.currentScreen = SCREEN_MAIN
                     THEN [s EXCEPT !.currentScreen = SCREEN_MENU, !.menuIndex = 0]
                     ELSE IF s.currentScreen = SCREEN_CONFIRM_START
                       THEN [startOperation(s) EXCEPT !.currentScreen = SCREEN_MAIN]
                       ELSE IF s.currentScreen = SCREEN_EDIT_VALUE
                         THEN handleMenuBack(
                                IF s.editTarget # NULLPTR THEN StoreEdit(s) ELSE s)
                         ELSE IF s.systemState = STATE_ERROR
                           THEN acknowledgeFault(s)
                           ELSE handleMenuSelect(s)
              ELSE s
  IN  [s1 EXCEPT !.buttonPressed = FALSE, !.buttonLongPressHandled = FALSE]

(* buttonState: digitalRead(PIN_BUTTON) == LOW *)
handleButton(s, buttonState) ==
  IF buttonState /\ ~s.buttonPressed
    THEN [s EXCEPT !.buttonPressed = TRUE,
                   !.buttonPressStart = millis,
                   !.buttonLongPressHandled = FALSE]
    ELSE IF buttonState /\ s.buttonPressed
      THEN ButtonHeld(s)
      ELSE IF ~buttonState /\ s.buttonPressed
        THEN ButtonReleased(s)
        ELSE s

(***************************************************************************)
(* Remote commands: mqttCallback (1563-1608), POST /api/stop (1701-1706)   *)
(***************************************************************************)
(* mqttCallback with command/set_mode starting the operation it selects *)
mqttCallback_SetModeStarts(s, topic, payload) ==
  IF topic = "command/set_mode" /\ s.systemState = STATE_IDLE
    THEN startOperation(
           [Call(s, "mqttCallback") EXCEPT !.operatingMode =
              IF payload = "reflow" THEN MODE_REFLOW ELSE MODE_FILAMENT])
    ELSE Call(s, "mqttCallback")

(* payload: the number payloadStr.toFloat() gives for command/set_temp, in
   whole degrees; the text for command/set_mode *)
(* mqttCallback with command/set_temp clamping the value into the bounds of
   the mode instead of testing it at 1591 *)
mqttCallback_Clamps(s, topic, payload) ==
  LET s0 == Call(s, "mqttCallback")
      maxTemp == MaxTempOf(s.operatingMode)
      minTemp == IF s.operatingMode = MODE_FILAMENT THEN FILAMENT_TEMP_MIN ELSE 0
      newTemp == constrain(Deg(payload), Deg(minTemp), Deg(maxTemp))
  IN  CASE topic = "command/stop" ->
             IF s.systemState # STATE_IDLE /\ s.systemState # STATE_ERROR
               THEN stopOperation(s0) ELSE s0
        [] topic = "command/set_temp" ->
             IF s.operatingMode = MODE_FILAMENT
               THEN [s0 EXCEPT !.targetTemp = newTemp,
                               !.filamentTemp = newTemp \div TempScale]
               ELSE [s0 EXCEPT !.targetTemp = newTemp]
        [] topic = "command/set_mode" ->
             IF s.systemState = STATE_IDLE
               THEN IF payload = "reflow"
                      THEN [s0 EXCEPT !.operatingMode = MODE_REFLOW]
                      ELSE IF payload = "filament"
                        THEN [s0 EXCEPT !.operatingMode = MODE_FILAMENT]
                        ELSE s0
               ELSE s0
        [] OTHER -> s0

mqttCallback(s, topic, payload) ==
  LET s0 == Call(s, "mqttCallback")
      newTemp == Deg(payload)
      maxTemp == MaxTempOf(s.operatingMode)
      minTemp == IF s.operatingMode = MODE_FILAMENT THEN FILAMENT_TEMP_MIN ELSE 0
  IN  CASE topic = "command/stop" ->
             IF s.systemState # STATE_IDLE /\ s.systemState # STATE_ERROR
               THEN stopOperation(s0) ELSE s0
        [] topic = "command/set_temp" ->
             IF newTemp >= Deg(minTemp) /\ newTemp <= Deg(maxTemp)
               THEN IF s.operatingMode = MODE_FILAMENT
                      THEN [s0 EXCEPT !.targetTemp = newTemp, !.filamentTemp = payload]
                      ELSE [s0 EXCEPT !.targetTemp = newTemp]
               ELSE s0
        [] topic = "command/set_mode" ->
             IF s.systemState = STATE_IDLE
               THEN IF payload = "reflow"
                      THEN [s0 EXCEPT !.operatingMode = MODE_REFLOW]
                      ELSE IF payload = "filament"
                        THEN [s0 EXCEPT !.operatingMode = MODE_FILAMENT]
                        ELSE s0
               ELSE s0
        [] OTHER -> s0

(* POST /api/stop without the test of systemState at 1702 *)
webApiStop_Unguarded(s) == stopOperation(Call(s, "webApiStop"))

webApiStop(s) ==
  IF s.systemState # STATE_IDLE /\ s.systemState # STATE_ERROR
    THEN stopOperation(Call(s, "webApiStop")) ELSE Call(s, "webApiStop")

(***************************************************************************)
(* The shop thermostat: src/shopThermostat/include/control.h,              *)
(* temperature.h, storage.h, and the files of src/unnamed: part_001        *)
(* (setup and loop), part_005 (web server and MQTT handlers), part_007     *)
(* (config.h).                                                             *)
(*                                                                         *)
(* Temperatures are in tenths of a degree C.  The clock is the value of    *)
(* millis() itself, because the program gives the value 0 of a timestamp a *)
(* meaning (relayOnTime, lastStateChange, overrideTime, _sensorFaultTime   *)
(* and lastTempRead all use 0 for "none").  The outdoor sensor, the        *)
(* schedules, the display and the network are left out: the controller     *)
(* reads none of them.  The relay pins always carry relayOn (control.h     *)
(* 211-218) and are not modelled apart from it.                            *)
(***************************************************************************)
ZONE_FLOOR == 0
ZONE_AIR == 1

Zones == {ZONE_FLOOR, ZONE_AIR}

SENSOR_FLOOR == 0
SENSOR_AIR == 1
SENSOR_WATER_IN == 3
SENSOR_WATER_OUT == 4

Sensors == {SENSOR_FLOOR, SENSOR_AIR, SENSOR_WATER_IN, SENSOR_WATER_OUT}

OVERRIDE_AUTO == 0
OVERRIDE_ON == 1
OVERRIDE_OFF == 2

DEFAULT_FLOOR_TARGET == 50
DEFAULT_FLOOR_HYSTERESIS == 20
FLOOR_THERMAL_RUNAWAY == 200
DEFAULT_AIR_TARGET == 180
DEFAULT_AIR_HYSTERESIS == 10
AIR_THERMAL_RUNAWAY == 300
DEFAULT_DELTA_T_WARNING_LOW == 10
TEMP_MIN_VALID == -550
TEMP_MAX_VALID == 1250
TEMP_ERROR_VALUE == -1270

SHOP_TEMP_READ_INTERVAL == 30000   \* TEMP_READ_INTERVAL of the thermostat
CONTROL_INTERVAL == 10000
MAX_RUNTIME_MS == 14400000
MIN_CYCLE_TIME_MS == 300000
SENSOR_FAULT_TIMEOUT_MS == 300000
MANUAL_OVERRIDE_TIMEOUT_MS == 7200000

(* no two state changes of the relay yet *)
NoGap == -1

(* The thermostat's state as one record; changeGap and runawaySeen are
   history the program does not keep. *)
Thermostat ==
  [zoneState |-> zoneState, zones |-> zones, water |-> water,
   readings |-> readings, sensorFaultTime |-> sensorFaultTime,
   sensorFault |-> sensorFault, millis |-> shopMillis,
   lastTempRead |-> shopLastTempRead,
   lastControlUpdate |-> lastControlUpdate,
   runawaySeen |-> runawaySeen, changeGap |-> changeGap]

CommitShop(t) ==
  /\ zoneState' = t.zoneState
  /\ zones' = t.zones
  /\ water' = t.water
  /\ readings' = t.readings
  /\ sensorFaultTime' = t.sensorFaultTime
  /\ sensorFault' = t.sensorFault
  /\ shopMillis' = t.millis
  /\ shopLastTempRead' = t.lastTempRead
  /\ lastControlUpdate' = t.lastControlUpdate
  /\ runawaySeen' = t.runawaySeen
  /\ changeGap' = t.changeGap
  /\ UNCHANGED ovenVars

(* zone == ZONE_FLOOR ? SENSOR_FLOOR : SENSOR_AIR (control.h 77) *)
SensorOf(zone) == IF zone = ZONE_FLOOR THEN SENSOR_FLOOR ELSE SENSOR_AIR

(***************************************************************************)
(* TemperatureManager (temperature.h)                                      *)
(***************************************************************************)
isValidReading(temp) ==
  temp > TEMP_MIN_VALID /\ temp < TEMP_MAX_VALID /\ temp # TEMP_ERROR_VALUE

handleSensorFault(t, sensorIndex) ==
  IF t.sensorFaultTime[sensorIndex] = 0
    THEN [t EXCEPT !.sensorFaultTime[sensorIndex] = t.millis]
    ELSE IF t.millis - t.sensorFaultTime[sensorIndex] > SENSOR_FAULT_TIMEOUT_MS
           THEN [t EXCEPT !.sensorFault[sensorIndex] = TRUE]
           ELSE t

(* one sensor of update(): raw is what getTempC returned (calibration 0) *)
ReadSensor(t, sensorIndex, raw) ==
  LET t1 == [t EXCEPT !.readings.valid[sensorIndex] = isValidReading(raw)] IN
  IF isValidReading(raw)
    THEN [t1 EXCEPT !.readings.temp[sensorIndex] = raw,
                    !.sensorFaultTime[sensorIndex] = 0,
                    !.sensorFault[sensorIndex] = FALSE]
    ELSE handleSensorFault(t1, sensorIndex)

(* update(): raw[i] is the raw value of sensor i *)
TemperatureManager_update(t, raw) ==
  LET t1 == ReadSensor(t, SENSOR_FLOOR, raw[SENSOR_FLOOR])
      t2 == ReadSensor(t1, SENSOR_AIR, raw[SENSOR_AIR])
      t3 == ReadSensor(t2, SENSOR_WATER_IN, raw[SENSOR_WATER_IN])
      t4 == ReadSensor(t3, SENSOR_WATER_OUT, raw[SENSOR_WATER_OUT])
  IN [t4 EXCEPT !.readings.waterDelta =
        IF t4.readings.valid[SENSOR_WATER_IN]
           /\ t4.readings.valid[SENSOR_WATER_OUT]
          THEN t4.readings.temp[SENSOR_WATER_OUT]
               - t4.readings.temp[SENSOR_WATER_IN]
          ELSE 0]

(***************************************************************************)
(* ThermostatController (control.h)                                        *)
(***************************************************************************)
setRelay(t, zone, on) ==
  LET state == t.zoneState[zone] IN
  IF on # state.relayOn
    THEN [t EXCEPT
            !.zoneState[zone] =
              [state EXCEPT
                 !.lastStateChange = t.millis,
                 !.cycleCount = @ + 1,
                 !.relayOnTime = IF on THEN t.millis ELSE 0,
                 !.totalRuntime =
                   IF ~on /\ state.relayOnTime > 0
                     THEN @ + (t.millis - state.relayOnTime)
                     ELSE @,
                 !.relayOn = on],
            !.changeGap[zone] =
              IF state.lastStateChange = 0 THEN @
              ELSE IF @ = NoGap THEN t.millis - state.lastStateChange
              ELSE Min(@, t.millis - state.lastStateChange)]
    ELSE t

getEffectiveTarget(t, zone) == t.zones[zone].targetTemp

(* updateZone from "Check maximum runtime" on (122-161) *)
updateZone_Automatic(t, zone, zoneTemp) ==
  LET zoneConfig == t.zones[zone]
      state == t.zoneState[zone]
      target == getEffectiveTarget(t, zone)
      lowThreshold == target - (zoneConfig.hysteresis \div 2)
      highThreshold == target + (zoneConfig.hysteresis \div 2)
      shouldBeOn ==
        IF zoneTemp < lowThreshold THEN TRUE
        ELSE IF zoneTemp > highThreshold THEN FALSE
        ELSE state.relayOn
  IN
  IF state.relayOn /\ t.millis - state.relayOnTime > MAX_RUNTIME_MS
    THEN setRelay([t EXCEPT !.zoneState[zone].maxRuntimeExceeded = TRUE],
                  zone, FALSE)
  ELSE IF /\ state.lastStateChange > 0
          /\ t.millis - state.lastStateChange < MIN_CYCLE_TIME_MS
    THEN t
  ELSE IF shouldBeOn # state.relayOn
    THEN setRelay(t, zone, shouldBeOn)
  ELSE t

(* updateZone without the latch of 96-100: a zone that tripped is controlled
   again as soon as its temperature is back under the limit *)
updateZone_NoLatch(t, zone, zoneTemp, sensorValid) ==
  LET zoneConfig == t.zones[zone]
      runawayLimit ==
        IF zone = ZONE_FLOOR THEN FLOOR_THERMAL_RUNAWAY
                             ELSE AIR_THERMAL_RUNAWAY
      t1 == [t EXCEPT !.zoneState[zone].sensorFault = FALSE]
      expired ==
        /\ zoneConfig.overrideTime > 0
        /\ t.millis - zoneConfig.overrideTime > MANUAL_OVERRIDE_TIMEOUT_MS
  IN
  IF ~sensorValid \/ t.sensorFault[SensorOf(zone)]
    THEN setRelay([t EXCEPT !.zoneState[zone].sensorFault = TRUE],
                  zone, FALSE)
  ELSE IF zoneTemp > runawayLimit
    THEN setRelay([t1 EXCEPT !.zoneState[zone].thermalRunaway = TRUE],
                  zone, FALSE)
  ELSE IF ~zoneConfig.enabled
    THEN setRelay(t1, zone, FALSE)
  ELSE IF zoneConfig.override # OVERRIDE_AUTO /\ ~expired
    THEN setRelay(t1, zone, zoneConfig.override = OVERRIDE_ON)
  ELSE IF zoneConfig.override # OVERRIDE_AUTO
    THEN updateZone_Automatic(
           [t1 EXCEPT !.zones[zone].override = OVERRIDE_AUTO,
                      !.zones[zone].overrideTime = 0],
           zone, zoneTemp)
  ELSE updateZone_Automatic(t1, zone, zoneTemp)

updateZone(t, zone, zoneTemp, sensorValid) ==
  LET zoneConfig == t.zones[zone]
      state == t.zoneState[zone]
      runawayLimit ==
        IF zone = ZONE_FLOOR THEN FLOOR_THERMAL_RUNAWAY
                             ELSE AIR_THERMAL_RUNAWAY
      t1 == [t EXCEPT !.zoneState[zone].sensorFault = FALSE]
      expired ==
        /\ zoneConfig.overrideTime > 0
        /\ t.millis - zoneConfig.overrideTime > MANUAL_OVERRIDE_TIMEOUT_MS
  IN
  IF ~sensorValid \/ t.sensorFault[SensorOf(zone)]
    THEN setRelay([t EXCEPT !.zoneState[zone].sensorFault = TRUE],
                  zone, FALSE)
  ELSE IF zoneTemp > runawayLimit
    THEN setRelay([t1 EXCEPT !.zoneState[zone].thermalRunaway = TRUE],
                  zone, FALSE)
  ELSE IF state.thermalRunaway
    THEN setRelay(t1, zone, FALSE)
  ELSE IF ~zoneConfig.enabled
    THEN setRelay(t1, zone, FALSE)
  ELSE IF zoneConfig.override # OVERRIDE_AUTO /\ ~expired
    THEN setRelay(t1, zone, zoneConfig.override = OVERRIDE_ON)
  ELSE IF zoneConfig.override # OVERRIDE_AUTO
    THEN updateZone_Automatic(
           [t1 EXCEPT !.zones[zone].override = OVERRIDE_AUTO,
                      !.zones[zone].overrideTime = 0],
           zone, zoneTemp)
  ELSE updateZone_Automatic(t1, zone, zoneTemp)

applySmartPumpControl(t) ==
  IF ~t.zoneState[ZONE_FLOOR].relayOn THEN t
  ELSE IF /\ t.readings.valid[SENSOR_WATER_IN]
          /\ t.readings.valid[SENSOR_WATER_OUT]
          /\ t.readings.waterDelta < t.water.deltaTWarningLow
    THEN setRelay(t, ZONE_FLOOR, FALSE)
  ELSE t

ThermostatController_update(t) ==
  LET t1 == updateZone(t, ZONE_FLOOR, t.readings.temp[SENSOR_FLOOR],
                       t.readings.valid[SENSOR_FLOOR])
      t2 == updateZone(t1, ZONE_AIR, t.readings.temp[SENSOR_AIR],
                       t.readings.valid[SENSOR_AIR])
      t3 == IF t.water.enabled /\ t.water.smartPumpControl
              THEN applySmartPumpControl(t2)
              ELSE t2
  IN (* the zones whose valid temperature this update sees above the limit *)
     [t3 EXCEPT !.runawaySeen =
        @ \cup {zone \in Zones :
                  /\ t.readings.valid[SensorOf(zone)]
                  /\ t.readings.temp[SensorOf(zone)] >
                       (IF zone = ZONE_FLOOR THEN FLOOR_THERMAL_RUNAWAY
                                             ELSE AIR_THERMAL_RUNAWAY)}]

setOverride(t, zone, mode) ==
  [t EXCEPT !.zones[zone].override = mode,
            !.zones[zone].overrideTime =
              IF mode # OVERRIDE_AUTO THEN t.millis ELSE 0]

resetThermalRunaway(t, zone) ==
  [t EXCEPT !.zoneState[zone].thermalRunaway = FALSE,
            !.zoneState[zone].maxRuntimeExceeded = FALSE,
            !.runawaySeen = @ \ {zone}]

(***************************************************************************)
(* The handlers that reach the controller: the web server's handleSetZone  *)
(* (part_005 323-355) and the MQTT callback's mode topics (866-885); its   *)
(* handleSetOverride (357-377) and handleResetThermal (667-682) only call  *)
(* setOverride and resetThermalRunaway.                                    *)
(***************************************************************************)
(* POST /api/zone with the key "enabled" and no other *)
handleSetZone(t, zoneId, enabled) ==
  [t EXCEPT !.zones[zoneId].enabled = enabled]

(* <zone>/mode/set with the payload "heat" or "off" *)
handleModeSet(t, zoneId, payloadStr) ==
  IF payloadStr = "heat"
    THEN setOverride([t EXCEPT !.zones[zoneId].enabled = TRUE],
                     zoneId, OVERRIDE_AUTO)
  ELSE IF payloadStr = "off"
    THEN setOverride(t, zoneId, OVERRIDE_OFF)
  ELSE t

(***************************************************************************)
(* setup() and loop() of the thermostat (part_001 79-215, 221-335)         *)
(***************************************************************************)
(* millis() when setup() reads the sensors for the first time *)
SetupMillis == 2000

(* setup(): config.load() (storage.h 215) finds smartPumpControl in the
   configuration file, controller.begin() switches both relays off, and the
   first temps.update() reads raw. *)
thermostatSetup(t, smartPumpControl, raw) ==
  LET t1 == [t EXCEPT !.water.smartPumpControl = smartPumpControl,
                      !.millis = SetupMillis]
      t2 == setRelay(setRelay(t1, ZONE_FLOOR, FALSE), ZONE_AIR, FALSE)
  IN TemperatureManager_update(t2, raw)

(* one pass of loop(), d ms after the previous one; raw is what the sensors
   return if this pass reads them *)
thermostatLoop(t, d, raw) ==
  LET now == t.millis + d
      t0 == [t EXCEPT !.millis = now]
      t1 == IF \/ now - t0.lastTempRead >= SHOP_TEMP_READ_INTERVAL
               \/ t0.lastTempRead = 0
              THEN [t0 EXCEPT !.lastTempRead = now]
              ELSE t0
      t2 == IF now - t1.lastTempRead > 800 /\ now - t1.lastTempRead < 1000
              THEN TemperatureManager_update(t1, raw)
              ELSE t1
  IN IF now - t2.lastControlUpdate >= CONTROL_INTERVAL
       THEN [ThermostatController_update(t2) EXCEPT
               !.lastControlUpdate = now]
       ELSE t2

(* The thermostat at power-on: the constructors of ThermostatController
   (control.h 33-45) and TemperatureManager (temperature.h 50-70),
   ConfigManager::setDefaults (storage.h 86-104) and the globals of
   part_001 51-52. *)
ThermostatPowerOn ==
  /\ zoneState =
       [zone \in Zones |->
          [relayOn |-> FALSE, thermalRunaway |-> FALSE,
           sensorFault |-> FALSE, maxRuntimeExceeded |-> FALSE,
           relayOnTime |-> 0, lastStateChange |-> 0,
           totalRuntime |-> 0, cycleCount |-> 0]]
  /\ zones =
       [zone \in Zones |->
          [targetTemp |-> IF zone = ZONE_FLOOR THEN DEFAULT_FLOOR_TARGET
                                               ELSE DEFAULT_AIR_TARGET,
           hysteresis |-> IF zone = ZONE_FLOOR THEN DEFAULT_FLOOR_HYSTERESIS
                                               ELSE DEFAULT_AIR_HYSTERESIS,
           enabled |-> TRUE, override |-> OVERRIDE_AUTO,
           overrideTime |-> 0]]
  /\ water = [enabled |-> TRUE,
              deltaTWarningLow |-> DEFAULT_DELTA_T_WARNING_LOW,
              smartPumpControl |-> FALSE]
  /\ readings = [temp |-> [i \in Sensors |-> 0],
                 valid |-> [i \in Sensors |-> FALSE],
                 waterDelta |-> 0]
  /\ sensorFaultTime = [i \in Sensors |-> 0]
  /\ sensorFault = [i \in Sensors |-> FALSE]
  /\ shopMillis = 0
  /\ shopLastTempRead = 0
  /\ lastControlUpdate = 0
  /\ runawaySeen = {}
  /\ changeGap = [zone \in Zones |-> NoGap]
  /\ shopTicks = 0

(***************************************************************************)
(* The state after setup() (333-402) on a device whose EEPROM holds no     *)
(* settings: loadSettings (2069-2076) keeps the defaults of 93-252.        *)
(***************************************************************************)
Init ==
  /\ systemState = STATE_IDLE
  /\ operatingMode = MODE_IDLE
  /\ currentScreen = SCREEN_MAIN
  /\ lastError = ERROR_NONE
  /\ currentTemp = 0
  /\ targetTemp = 0
  /\ tempHistory = [i \in HistoryIndex |-> 0]
  /\ tempHistoryIndex = 0
  /\ pidKp = 0
  /\ pidKi = 0
  /\ pidKd = 0
  /\ pidIntegral = 0
  /\ pidLastError = 0
  /\ pidOutput = 0
  /\ operationStartTime = millis
  /\ operationDuration = 0
  /\ phaseStartTime = millis
  /\ lastTempRead = millis
  /\ lastPidUpdate = millis
  /\ buttonPressStart = millis
  /\ buttonPressed = FALSE
  /\ buttonLongPressHandled = FALSE
  /\ lastEncoderTime = millis
  /\ ssrCycleStart = millis
  /\ ssrState = FALSE
  /\ ssrDutyCycle = 0
  /\ reflowPeakTemp = REFLOW_PEAK_TEMP
  /\ reflowSoakTemp = REFLOW_PREHEAT_TEMP
  /\ reflowSoakDuration = REFLOW_SOAK_DURATION
  /\ selectedFilament = FILAMENT_PLA
  /\ filamentTemp = FILAMENT_PLA_TEMP
  /\ filamentDuration = FILAMENT_PLA_TIME
  /\ menuIndex = 0
  /\ editValue = 0
  /\ editMin = 0
  /\ editMax = 100
  /\ editTarget = NULLPTR
  /\ heaterOffTemp = 0
  /\ heaterOffTime = millis
  /\ heaterWasOn = FALSE
  /\ pinSSR = FALSE
  /\ pc = "loop"
  /\ ticks = 0
  /\ turns = 0
  /\ called = <<>>
  /\ sampled = NoSample
  /\ onSinceStart = FALSE
  /\ offEdgeTime = millis
  /\ offEdgeTemp = 0
  /\ ThermostatPowerOn

(***************************************************************************)
(* loop() (408-480), one action per statement.  pc names the statement     *)
(* that runs next.                                                         *)
(***************************************************************************)
(* d milliseconds have passed since the previous pass: every timestamp is d
   further in the past. *)
Advance(s, d) ==
  [s EXCEPT
     !.operationStartTime = Aged(@, d, HorizonOperation),
     !.phaseStartTime = Aged(@, d, HorizonPhase),
     !.heaterOffTime = Aged(@, d, HorizonHeaterOff),
     !.offEdgeTime = Aged(@, d, HorizonHeaterOff),
     !.lastTempRead = Aged(@, d, TEMP_READ_INTERVAL),
     !.lastPidUpdate = Aged(@, d, PID_INTERVAL),
     !.ssrCycleStart = Aged(@, d, SSR_PERIOD),
     !.buttonPressStart = Aged(@, d, BUTTON_START_PRESS_TIME),
     !.lastEncoderTime = Aged(@, d, ENCODER_ACCEL_THRESHOLD)]

(* The globals as the statement that runs next finds them. *)
G0 == [G EXCEPT !.called = <<>>, !.sampled = NoSample]

(* unsigned long currentMillis = millis(); (409) *)
LoopStart(D, maxTicks) ==
  /\ pc = "loop"
  /\ \E d \in D :
       /\ d > 0 => ticks < maxTicks
       /\ Commit(Advance(G0, d))
       /\ ticks' = IF d > 0 THEN ticks + 1 ELSE ticks
  /\ pc' = "readTemperature"
  /\ UNCHANGED turns

(* 415-418; adc is analogRead(PIN_TEMP_SENSOR) *)
LoopReadTemperature(A) ==
  /\ pc = "readTemperature"
  /\ IF millis - lastTempRead >= TEMP_READ_INTERVAL
       THEN \E adc \in A :
              Commit([readTemperature(G0, adc) EXCEPT
                        !.lastTempRead = millis, !.sampled = adc])
       ELSE Commit(G0)
  /\ pc' = "checkSafetyConditions"
  /\ UNCHANGED <<ticks, turns>>

(* 421 *)
LoopCheckSafetyConditions ==
  /\ pc = "checkSafetyConditions"
  /\ Commit(checkSafetyConditions(G0))
  /\ pc' = "updatePID"
  /\ UNCHANGED <<ticks, turns>>

(* loop() without the test of systemState at 425 *)
LoopUpdatePID_Unguarded ==
  /\ pc = "updatePID"
  /\ IF millis - lastPidUpdate >= PID_INTERVAL
       THEN Commit([updatePID(G0) EXCEPT !.lastPidUpdate = millis])
       ELSE Commit(G0)
  /\ pc' = "controlSSR"
  /\ UNCHANGED <<ticks, turns>>

(* 424-433 *)
LoopUpdatePID ==
  /\ pc = "updatePID"
  /\ IF millis - lastPidUpdate >= PID_INTERVAL
       THEN Commit([(IF systemState # STATE_IDLE /\ systemState # STATE_ERROR
                        /\ systemState # STATE_COMPLETE
                       THEN updatePID(G0) ELSE G0)
                    EXCEPT !.lastPidUpdate = millis])
       ELSE Commit(G0)
  /\ pc' = "controlSSR"
  /\ UNCHANGED <<ticks, turns>>

(* 436; controlSSR reads millis() itself (604), k ms after loop() read it at
   409 *)
LoopControlSSR(K, maxTicks) ==
  /\ pc = "controlSSR"
  /\ \E k \in K :
       /\ k > 0 => ticks < maxTicks
       /\ Commit(controlSSR(Advance(G0, k)))
       /\ ticks' = IF k > 0 THEN ticks + 1 ELSE ticks
  /\ pc' = "updateStateMachine"
  /\ UNCHANGED turns

(* 439 *)
LoopUpdateStateMachine ==
  /\ pc = "updateStateMachine"
  /\ Commit(updateStateMachine(G0))
  /\ pc' = "handleEncoder"
  /\ UNCHANGED <<ticks, turns>>

(* 442; turn is the movement of the encoder since the previous pass *)
LoopHandleEncoder(T) ==
  /\ pc = "handleEncoder"
  /\ \E turn \in T :
       /\ turn # 0 => turns < MaxTurns
       /\ Commit(handleEncoder(G0, turn))
       /\ turns' = IF turn # 0 THEN turns + 1 ELSE turns
  /\ pc' = "handleButton"
  /\ UNCHANGED ticks

(* 443; buttonState is digitalRead(PIN_BUTTON) == LOW *)
LoopHandleButton ==
  /\ pc = "handleButton"
  /\ \E buttonState \in BOOLEAN : Commit(handleButton(G0, buttonState))
  /\ pc' = "handleClient"
  /\ UNCHANGED <<ticks, turns>>

(* 452; request is what webServer.handleClient() dispatches *)
LoopHandleClient(R) ==
  /\ pc = "handleClient"
  /\ \E request \in R :
       Commit(IF request = "POST /api/stop" THEN webApiStop(G0) ELSE G0)
  /\ pc' = "handleMQTT"
  /\ UNCHANGED <<ticks, turns>>

(* 458; message is what mqttClient.loop() hands to mqttCallback *)
LoopHandleMQTT(M) ==
  /\ pc = "handleMQTT"
  /\ \E message \in M :
       Commit(IF message.topic = "none"
                THEN G0
                ELSE mqttCallback(G0, message.topic, message.payload))
  /\ pc' = "loop"
  /\ UNCHANGED <<ticks, turns>>

Next ==
  \/ LoopStart(Deltas, MaxTicks)
  \/ LoopReadTemperature(AdcValues)
  \/ LoopCheckSafetyConditions
  \/ LoopUpdatePID
  \/ LoopControlSSR(NoSkew, 0)
  \/ LoopUpdateStateMachine
  \/ LoopHandleEncoder(Turns)
  \/ LoopHandleButton
  \/ LoopHandleClient(Requests)
  \/ LoopHandleMQTT(Messages)

Spec == Init /\ [][Next]_vars

NextThermal ==
  \/ LoopStart(ThermalDeltas, MaxThermalTicks)
  \/ LoopReadTemperature(ThermalAdcValues)
  \/ LoopCheckSafetyConditions
  \/ LoopUpdatePID
  \/ LoopControlSSR(NoSkew, 0)
  \/ LoopUpdateStateMachine
  \/ LoopHandleEncoder(NoTurns)
  \/ LoopHandleButton
  \/ LoopHandleClient(NoRequests)
  \/ LoopHandleMQTT(ModeMessages)

SpecThermal == Init /\ [][NextThermal]_vars

NextSensor ==
  \/ LoopStart(Deltas, MaxThermalTicks)
  \/ LoopReadTemperature(SensorAdcValues)
  \/ LoopCheckSafetyConditions
  \/ LoopUpdatePID
  \/ LoopControlSSR(NoSkew, 0)
  \/ LoopUpdateStateMachine
  \/ LoopHandleEncoder(NoTurns)
  \/ LoopHandleButton
  \/ LoopHandleClient(NoRequests)
  \/ LoopHandleMQTT(SensorMessages)

SpecSensor == Init /\ [][NextSensor]_vars

NextDrying ==
  \/ LoopStart(DryingDeltas, MaxThermalTicks)
  \/ LoopReadTemperature(DryingAdcValues)
  \/ LoopCheckSafetyConditions
  \/ LoopUpdatePID
  \/ LoopControlSSR(NoSkew, 0)
  \/ LoopUpdateStateMachine
  \/ LoopHandleEncoder(NoTurns)
  \/ LoopHandleButton
  \/ LoopHandleClient(NoRequests)
  \/ LoopHandleMQTT(ModeMessages)

SpecDrying == Init /\ [][NextDrying]_vars

NextReflow ==
  \/ LoopStart(ReflowDeltas, MaxThermalTicks)
  \/ LoopReadTemperature(ReflowAdcValues)
  \/ LoopCheckSafetyConditions
  \/ LoopUpdatePID
  \/ LoopControlSSR(NoSkew, 0)
  \/ LoopUpdateStateMachine
  \/ LoopHandleEncoder(NoTurns)
  \/ LoopHandleButton
  \/ LoopHandleClient(NoRequests)
  \/ LoopHandleMQTT(ReflowMessages)

SpecReflow == Init /\ [][NextReflow]_vars

NextWindow ==
  \/ LoopStart(WindowDeltas, MaxWindowTicks)
  \/ LoopReadTemperature(WindowAdcValues)
  \/ LoopCheckSafetyConditions
  \/ LoopUpdatePID
  \/ LoopControlSSR(Skews, MaxWindowTicks)
  \/ LoopUpdateStateMachine
  \/ LoopHandleEncoder(NoTurns)
  \/ LoopHandleButton
  \/ LoopHandleClient(NoRequests)
  \/ LoopHandleMQTT(ReflowMessages)

SpecWindow == Init /\ [][NextWindow]_vars

NextOverride ==
  \/ LoopStart(Deltas, MaxTicks)
  \/ LoopReadTemperature(WindowAdcValues)
  \/ LoopCheckSafetyConditions
  \/ LoopUpdatePID
  \/ LoopControlSSR(NoSkew, 0)
  \/ LoopUpdateStateMachine
  \/ LoopHandleEncoder(NoTurns)
  \/ LoopHandleButton
  \/ LoopHandleClient(NoRequests)
  \/ LoopHandleMQTT(Messages)

SpecOverride == Init /\ [][NextOverride]_vars

(* SpecCooling: the reflow profile with a set_temp command at any pass. *)
NextCooling ==
  \/ LoopStart(ReflowDeltas, MaxThermalTicks)
  \/ LoopReadTemperature(ThermalAdcValues)
  \/ LoopCheckSafetyConditions
  \/ LoopUpdatePID
  \/ LoopControlSSR(NoSkew, 0)
  \/ LoopUpdateStateMachine
  \/ LoopHandleEncoder(NoTurns)
  \/ LoopHandleButton
  \/ LoopHandleClient(NoRequests)
  \/ LoopHandleMQTT(ReflowMessages
                    \cup {[topic |-> "command/set_temp",
                           payload |-> SET_TEMP_HIGH]})

SpecCooling == Init /\ [][NextCooling]_vars

(***************************************************************************)
(* The thermostat's actions and specifications.  SpecShop drives setup()   *)
(* and loop() with the sensor values, the pass times and the commands of   *)
(* both zones; SpecRuntime follows one cold zone, pass by pass at the      *)
(* control interval, beyond the maximum runtime.                           *)
(***************************************************************************)
(* the passes of loop() *)
MaxShopTicks == 3
MaxRuntimeTicks == 1445

(* what the four sensors return, in tenths of a degree *)
Raw(floor, air, waterIn, waterOut) ==
  (SENSOR_FLOOR :> floor) @@ (SENSOR_AIR :> air)
  @@ (SENSOR_WATER_IN :> waterIn) @@ (SENSOR_WATER_OUT :> waterOut)

(* the floor sensor gives no answer; both zones cold, with the tank's delta-T
   above and below the low warning; the floor, then the air, above its
   runaway limit *)
ShopRaw ==
  {Raw(TEMP_ERROR_VALUE, 170, 400, 450),
   Raw(30, 170, 400, 450),
   Raw(30, 170, 400, 405),
   Raw(210, 170, 400, 450),
   Raw(30, 310, 400, 450)}

Setup(S, R) ==
  /\ shopMillis = 0
  /\ \E smartPumpControl \in S, raw \in R :
       CommitShop(thermostatSetup(Thermostat, smartPumpControl, raw))
  /\ UNCHANGED shopTicks

ThermostatLoop(D, R, maxTicks) ==
  /\ shopMillis > 0
  /\ shopTicks < maxTicks
  /\ \E d \in D, raw \in R : CommitShop(thermostatLoop(Thermostat, d, raw))
  /\ shopTicks' = shopTicks + 1

HandleSetZone(Z) ==
  /\ shopMillis > 0
  /\ \E zoneId \in Z, enabled \in BOOLEAN :
       CommitShop(handleSetZone(Thermostat, zoneId, enabled))
  /\ UNCHANGED shopTicks

HandleSetOverride(Z, M) ==
  /\ shopMillis > 0
  /\ \E zoneId \in Z, overrideMode \in M :
       CommitShop(setOverride(Thermostat, zoneId, overrideMode))
  /\ UNCHANGED shopTicks

HandleResetThermal(Z) ==
  /\ shopMillis > 0
  /\ \E zoneId \in Z : CommitShop(resetThermalRunaway(Thermostat, zoneId))
  /\ UNCHANGED shopTicks

HandleModeSet(Z, P) ==
  /\ shopMillis > 0
  /\ \E zoneId \in Z, payloadStr \in P :
       CommitShop(handleModeSet(Thermostat, zoneId, payloadStr))
  /\ UNCHANGED shopTicks

(* Passes of loop() 900 ms after the request for the sensor values, when it
   reads them, and at the next control update. *)
NextShop ==
  \/ Setup(BOOLEAN, ShopRaw)
  \/ ThermostatLoop({900, CONTROL_INTERVAL - 900}, ShopRaw, MaxShopTicks)
  \/ HandleSetZone(Zones)
  \/ HandleSetOverride(Zones, {OVERRIDE_AUTO, OVERRIDE_ON, OVERRIDE_OFF})
  \/ HandleResetThermal(Zones)
  \/ HandleModeSet(Zones, {"heat", "off"})

SpecShop == Init /\ [][NextShop]_vars

(* The floor stays cold and the air inside its band; every pass of loop()
   comes one control interval after the previous one. *)
NextRuntime ==
  \/ Setup({FALSE}, {Raw(30, 180, 400, 450)})
  \/ ThermostatLoop({CONTROL_INTERVAL}, {Raw(30, 180, 400, 450)},
                    MaxRuntimeTicks)
  \/ HandleSetOverride({ZONE_FLOOR}, {OVERRIDE_ON})

SpecRuntime == Init /\ [][NextRuntime]_vars

(***************************************************************************)
(* The statements checked.                                                 *)
(***************************************************************************)
HeatingPhases ==
  {STATE_PREHEATING, STATE_SOAKING, STATE_REFLOW, STATE_COOLING,
   STATE_HEATING, STATE_MAINTAINING}

(* C1: while systemState is STATE_ERROR the commanded duty is 0, the SSR
   state and the SSR pin are off, and the statement that ran last did not
   call updatePID: this holds after every statement of every pass of loop(),
   from the statement that raised the trip on, whatever the target is and
   whatever button, encoder, web and MQTT input arrived. *)
C1_HeaterOffWhileFaulted ==
  systemState = STATE_ERROR =>
    /\ ssrDutyCycle = 0
    /\ ~ssrState
    /\ ~pinSSR
    /\ ~Called("updatePID")

(* C1, its case: controlSSR has just run in STATE_ERROR in a pass whose 1 Hz
   slot was due, with a reading more than 10 degrees under the target, where
   updatePID would command full power. *)
C1_Witness ==
  /\ systemState = STATE_ERROR
  /\ pc = "updateStateMachine"
  /\ Called("controlSSR")
  /\ lastPidUpdate = millis
  /\ currentTemp < targetTemp - Deg(PID_FULL_POWER_BAND)

(* C2: a step that leaves STATE_ERROR is the release of a short button press
   in handleButton, and it goes to STATE_IDLE with lastError cleared; a step
   that enters Preheating or Heating starts in STATE_IDLE and calls
   startOperation; a step that enters another heating phase starts in a
   heating phase.  So no pass of loop(), no state-machine update, no stop
   command and no start attempt takes the state out of STATE_ERROR. *)
C2_FaultLatched ==
  [][/\ (systemState = STATE_ERROR /\ systemState' # STATE_ERROR) =>
          /\ pc = "handleButton"
          /\ buttonPressed /\ ~buttonPressed'
          /\ millis - buttonPressStart < BUTTON_LONG_PRESS_TIME
          /\ systemState' = STATE_IDLE
          /\ lastError' = ERROR_NONE
     /\ (systemState' \in {STATE_PREHEATING, STATE_HEATING}
           /\ systemState' # systemState) =>
          /\ systemState = STATE_IDLE
          /\ CalledIn(called', "startOperation")
     /\ (systemState' \in HeatingPhases \ {STATE_PREHEATING, STATE_HEATING}
           /\ systemState' # systemState) =>
          systemState \in HeatingPhases
    ]_vars

(* C2, its case: a latched fault has been acknowledged at the button. *)
C2_Witness ==
  /\ systemState = STATE_IDLE
  /\ Called("acknowledge")

(* C3: whenever systemState is STATE_COMPLETE or STATE_ERROR the commanded
   duty ssrDutyCycle is 0, in reflow mode and in filament mode. *)
C3_NoDutyWhenCompleteOrFaulted ==
  systemState \in {STATE_COMPLETE, STATE_ERROR} => ssrDutyCycle = 0

(* C8: a step from STATE_IDLE into an operation is the release of a short
   button press on the confirmation screen, and it enters Preheating or
   Heating; a step that shows the confirmation screen is handleButton finding
   the button held for 5 s on the main screen, in STATE_IDLE with a mode
   selected; and no web request and no MQTT message takes the state out of
   STATE_IDLE. *)
C8_LocalStartOnly ==
  [][/\ (systemState = STATE_IDLE /\ systemState' \notin {STATE_IDLE, STATE_ERROR}) =>
          /\ pc = "handleButton"
          /\ currentScreen = SCREEN_CONFIRM_START
          /\ buttonPressed /\ ~buttonPressed'
          /\ millis - buttonPressStart < BUTTON_LONG_PRESS_TIME
          /\ systemState' \in {STATE_PREHEATING, STATE_HEATING}
     /\ (currentScreen' = SCREEN_CONFIRM_START
           /\ currentScreen # SCREEN_CONFIRM_START) =>
          /\ pc = "handleButton"
          /\ currentScreen = SCREEN_MAIN
          /\ buttonPressed /\ buttonPressed'
          /\ millis - buttonPressStart >= BUTTON_START_PRESS_TIME
          /\ systemState = STATE_IDLE
          /\ operatingMode # MODE_IDLE
     /\ (pc \in {"handleClient", "handleMQTT"} /\ systemState = STATE_IDLE) =>
          systemState' = STATE_IDLE
    ]_vars

(* C8, its case: the button handler has just started an operation from the
   main screen. *)
C8_Witness ==
  /\ systemState \in {STATE_PREHEATING, STATE_HEATING}
  /\ currentScreen = SCREEN_MAIN
  /\ Called("startOperation")

(* C9: in every reachable state other than STATE_IDLE, startOperation
   returns with systemState, targetTemp, operationStartTime, phaseStartTime,
   operationDuration, heaterWasOn, pidIntegral, pidLastError and pidOutput
   as it found them. *)
C9_StartRejected ==
  systemState # STATE_IDLE =>
    LET r == startOperation(G)
    IN  /\ r.systemState = systemState
        /\ r.targetTemp = targetTemp
        /\ r.operationStartTime = operationStartTime
        /\ r.phaseStartTime = phaseStartTime
        /\ r.operationDuration = operationDuration
        /\ r.heaterWasOn = heaterWasOn
        /\ r.pidIntegral = pidIntegral
        /\ r.pidLastError = pidLastError
        /\ r.pidOutput = pidOutput

(* C9, its case: handleButton has called startOperation while the state was
   not STATE_IDLE (the confirmation screen was showing when a fault was
   raised). *)
C9_Witness ==
  /\ systemState # STATE_IDLE
  /\ Called("startOperation:rejected")

(* C10: a step between two heating phases leaves operatingMode and the
   profile parameters reflowSoakTemp, reflowSoakDuration, reflowPeakTemp,
   filamentTemp and filamentDuration as they were. *)
C10_ConfigurationFrozen ==
  [][(systemState \in HeatingPhases /\ systemState' \in HeatingPhases) =>
       /\ operatingMode' = operatingMode
       /\ reflowSoakTemp' = reflowSoakTemp
       /\ reflowSoakDuration' = reflowSoakDuration
       /\ reflowPeakTemp' = reflowPeakTemp
       /\ filamentTemp' = filamentTemp
       /\ filamentDuration' = filamentDuration
    ]_vars

(***************************************************************************)
(* What a safety check finds, in the terms of the statements about it.     *)
(***************************************************************************)
AtSafetyCheck ==
  /\ pc = "checkSafetyConditions"
  /\ systemState \notin {STATE_IDLE, STATE_ERROR}

(* the ceiling of the operating mode *)
Ceiling ==
  IF operatingMode = MODE_REFLOW
    THEN Deg(REFLOW_MAX_TEMP) ELSE Deg(FILAMENT_MAX_TEMP)

(* the pin has been low for more than 30 s since it last went low, in a run
   in which it was high, and the reading is more than 5 degrees over the
   reading at that edge *)
RunawayCondition ==
  /\ onSinceStart
  /\ ~pinSSR
  /\ millis - offEdgeTime > THERMAL_RUNAWAY_TIME
  /\ currentTemp - offEdgeTemp > Deg(THERMAL_RUNAWAY_TEMP_RISE)

(* whole seconds since operationStartTime, and the limit of the mode *)
Elapsed == (millis - operationStartTime) \div 1000

Limit ==
  IF operatingMode = MODE_REFLOW THEN REFLOW_TIMEOUT ELSE filamentDuration * 60

(* the step raises the trip `error` *)
Raises(error) ==
  /\ CalledIn(called', "emergencyShutdown")
  /\ lastError' = error
  /\ systemState' = STATE_ERROR

(* C4: at a safety check in a state other than Idle and Faulted the mode is
   reflow or filament; if the reading is over the ceiling of the mode the
   step ends in STATE_ERROR with ERROR_OVER_TEMP, duty 0 and the SSR off; if
   it is at or under the ceiling no ERROR_OVER_TEMP is raised; and no other
   step raises ERROR_OVER_TEMP. *)
C4_OverTemperatureTrip ==
  [][/\ AtSafetyCheck =>
          /\ operatingMode \in {MODE_REFLOW, MODE_FILAMENT}
          /\ IF currentTemp > Ceiling
               THEN /\ Raises(ERROR_OVER_TEMP)
                    /\ ssrDutyCycle' = 0 /\ ~ssrState' /\ ~pinSSR'
               ELSE ~Raises(ERROR_OVER_TEMP)
     /\ Raises(ERROR_OVER_TEMP) => AtSafetyCheck
    ]_vars

(* C4, its case: a reflow operation has tripped on a reading over 260. *)
C4_Witness ==
  /\ Called("emergencyShutdown")
  /\ lastError = ERROR_OVER_TEMP
  /\ operatingMode = MODE_REFLOW
  /\ currentTemp > Deg(REFLOW_MAX_TEMP)

(* C5 as stated: ERROR_THERMAL_RUNAWAY is raised only at a safety check
   that finds the runaway condition, and every safety check that finds it
   raises ERROR_THERMAL_RUNAWAY. *)
C5_RunawayAtFirstCheck ==
  [][/\ Raises(ERROR_THERMAL_RUNAWAY) => AtSafetyCheck /\ RunawayCondition
     /\ (AtSafetyCheck /\ RunawayCondition) => Raises(ERROR_THERMAL_RUNAWAY)
    ]_vars

(* C5, amended: ERROR_THERMAL_RUNAWAY is raised only at a safety check that
   finds the runaway condition (so never within 30 s of the edge), and every
   safety check that finds it trips: with ERROR_OVER_TEMP if the reading is
   over the ceiling of the mode, with ERROR_THERMAL_RUNAWAY if not. *)
C5_RunawayUnlessOverTemperature ==
  [][/\ Raises(ERROR_THERMAL_RUNAWAY) => AtSafetyCheck /\ RunawayCondition
     /\ (AtSafetyCheck /\ RunawayCondition) =>
          IF currentTemp > Ceiling
            THEN Raises(ERROR_OVER_TEMP)
            ELSE Raises(ERROR_THERMAL_RUNAWAY)
    ]_vars

(* C5, its case: the runaway trip has been raised. *)
C5_Witness ==
  /\ Called("emergencyShutdown")
  /\ lastError = ERROR_THERMAL_RUNAWAY
  /\ millis - offEdgeTime > THERMAL_RUNAWAY_TIME
  /\ currentTemp - offEdgeTemp > Deg(THERMAL_RUNAWAY_TEMP_RISE)

(* C6: a read that samples a code under SENSOR_SHORT_THRESHOLD raises
   ERROR_SENSOR_FAIL in that same step, with the SSR off, if the pin has
   been high since the last start; if it has not, the step raises nothing
   and leaves systemState and lastError as they were. *)
C6_ShortTripsOnceHeated ==
  [][(pc = "readTemperature" /\ sampled' # NoSample
        /\ sampled' < SENSOR_SHORT_THRESHOLD) =>
       IF onSinceStart
         THEN /\ Raises(ERROR_SENSOR_FAIL)
              /\ ssrDutyCycle' = 0 /\ ~ssrState' /\ ~pinSSR'
         ELSE /\ ~CalledIn(called', "emergencyShutdown")
              /\ systemState' = systemState
              /\ lastError' = lastError
    ]_vars

(* C6, its case: a code under the threshold has tripped an operation whose
   heater had been on. *)
C6_Witness ==
  /\ sampled # NoSample
  /\ sampled < SENSOR_SHORT_THRESHOLD
  /\ onSinceStart
  /\ systemState = STATE_ERROR
  /\ lastError = ERROR_SENSOR_FAIL

(* C7 as stated: ERROR_TIMEOUT is raised only at a safety check that finds
   the elapsed seconds over the limit of the mode, and every safety check
   that finds them over the limit raises ERROR_TIMEOUT. *)
C7_TimeoutExactly ==
  [][/\ Raises(ERROR_TIMEOUT) => AtSafetyCheck /\ Elapsed > Limit
     /\ (AtSafetyCheck /\ Elapsed > Limit) => Raises(ERROR_TIMEOUT)
    ]_vars

(* C7, amended: ERROR_TIMEOUT is raised only at a safety check that finds
   the elapsed seconds over the limit of the mode (never at or under it),
   and every safety check that finds them over the limit trips: with
   ERROR_OVER_TEMP if the reading is over the ceiling, else with
   ERROR_THERMAL_RUNAWAY if the runaway condition holds, else with
   ERROR_TIMEOUT. *)
C7_TimeoutUnlessEarlierCheck ==
  [][/\ Raises(ERROR_TIMEOUT) => AtSafetyCheck /\ Elapsed > Limit
     /\ (AtSafetyCheck /\ Elapsed > Limit) =>
          IF currentTemp > Ceiling
            THEN Raises(ERROR_OVER_TEMP)
            ELSE IF RunawayCondition
              THEN Raises(ERROR_THERMAL_RUNAWAY)
              ELSE Raises(ERROR_TIMEOUT)
    ]_vars

(* C7, its case: a filament operation has timed out. *)
C7_Witness ==
  /\ Called("emergencyShutdown")
  /\ lastError = ERROR_TIMEOUT
  /\ operatingMode = MODE_FILAMENT
  /\ Elapsed > Limit

(* C11: a step that leaves STATE_COMPLETE is a stop command: it calls
   stopOperation and goes to STATE_IDLE.  No pass of loop() takes the state
   out of STATE_COMPLETE on its own. *)
C11_CompleteTerminal ==
  [][(systemState = STATE_COMPLETE /\ systemState' # STATE_COMPLETE) =>
       /\ systemState' = STATE_IDLE
       /\ CalledIn(called', "stopOperation")
    ]_vars

(* C12: in filament mode the state-machine update takes Heating to
   Maintaining exactly when the reading is at least filamentTemp - 2, and
   Maintaining to Complete exactly when the whole seconds since
   operationStartTime are at least filamentDuration * 60; STATE_COMPLETE is
   entered from Maintaining only; and a safety check that finds the elapsed
   seconds at or under filamentDuration * 60 raises no ERROR_TIMEOUT, so the
   pass that finds them equal to it ends in STATE_COMPLETE. *)
C12_FilamentPhases ==
  [][/\ (pc = "updateStateMachine" /\ operatingMode = MODE_FILAMENT
           /\ systemState = STATE_HEATING) =>
          systemState' = IF currentTemp >= Deg(filamentTemp - 2)
                           THEN STATE_MAINTAINING ELSE STATE_HEATING
     /\ (pc = "updateStateMachine" /\ operatingMode = MODE_FILAMENT
           /\ systemState = STATE_MAINTAINING) =>
          systemState' = IF Elapsed >= filamentDuration * 60
                           THEN STATE_COMPLETE ELSE STATE_MAINTAINING
     /\ (systemState' # systemState
           /\ systemState' \in {STATE_MAINTAINING, STATE_COMPLETE}
           /\ operatingMode = MODE_FILAMENT) =>
          /\ pc = "updateStateMachine"
          /\ systemState = IF systemState' = STATE_COMPLETE
                             THEN STATE_MAINTAINING ELSE STATE_HEATING
     /\ (AtSafetyCheck /\ operatingMode = MODE_FILAMENT
           /\ Elapsed <= filamentDuration * 60) =>
          ~Raises(ERROR_TIMEOUT)
    ]_vars

(* C12, its case: a filament operation has just completed in the pass that
   found its configured duration elapsed to the second. *)
C12_Witness ==
  /\ systemState = STATE_COMPLETE
  /\ Called("transitionToState")
  /\ operatingMode = MODE_FILAMENT
  /\ Elapsed = filamentDuration * 60
  /\ lastError = ERROR_NONE

ReflowPhases ==
  {STATE_PREHEATING, STATE_SOAKING, STATE_REFLOW, STATE_COOLING}

(* whole seconds since phaseStartTime *)
PhaseElapsed == (millis - phaseStartTime) \div 1000

(* C13: Preheating is entered from Idle by startOperation in reflow mode;
   Soaking, Reflow, Cooling and Complete (in reflow mode) are entered only
   by the state-machine update, each from the phase before it and only when
   its condition holds: reading >= reflowSoakTemp, phase seconds >=
   reflowSoakDuration, reading >= reflowPeakTemp, reading <= 80; a step
   changes the phase by one place at most; and the only other exits of a
   reflow phase are to STATE_ERROR by a trip and to STATE_IDLE by
   stopOperation. *)
C13_ReflowPhaseOrder ==
  [][/\ (systemState' = STATE_PREHEATING /\ systemState # STATE_PREHEATING) =>
          /\ systemState = STATE_IDLE
          /\ operatingMode = MODE_REFLOW
          /\ CalledIn(called', "startOperation")
     /\ (systemState' = STATE_SOAKING /\ systemState # STATE_SOAKING) =>
          /\ pc = "updateStateMachine"
          /\ systemState = STATE_PREHEATING
          /\ currentTemp >= Deg(reflowSoakTemp)
     /\ (systemState' = STATE_REFLOW /\ systemState # STATE_REFLOW) =>
          /\ pc = "updateStateMachine"
          /\ systemState = STATE_SOAKING
          /\ PhaseElapsed >= reflowSoakDuration
     /\ (systemState' = STATE_COOLING /\ systemState # STATE_COOLING) =>
          /\ pc = "updateStateMachine"
          /\ systemState = STATE_REFLOW
          /\ currentTemp >= Deg(reflowPeakTemp)
     /\ (systemState' = STATE_COMPLETE /\ systemState # STATE_COMPLETE
           /\ operatingMode = MODE_REFLOW) =>
          /\ pc = "updateStateMachine"
          /\ systemState = STATE_COOLING
          /\ currentTemp <= Deg(80)
     /\ (systemState \in ReflowPhases
           /\ systemState' \notin ReflowPhases \cup {STATE_COMPLETE}) =>
          \/ systemState' = STATE_ERROR
               /\ CalledIn(called', "emergencyShutdown")
          \/ systemState' = STATE_IDLE /\ CalledIn(called', "stopOperation")
    ]_vars

(* C13, its case: a reflow operation has gone through its phases to
   STATE_COMPLETE. *)
C13_Witness ==
  /\ systemState = STATE_COMPLETE
  /\ operatingMode = MODE_REFLOW
  /\ Called("transitionToState")
  /\ currentTemp <= Deg(REFLOW_COOLING_TEMP)

(* C14: the step that enters Soaking sets phaseStartTime to the time of that
   step; while the state stays Soaking, phaseStartTime is written by no
   statement (the time since it only grows as the clock advances); and the
   state-machine update in Soaking goes to Reflow if the whole seconds since
   phaseStartTime are at least reflowSoakDuration and stays in Soaking if
   they are fewer. *)
C14_SoakDwell ==
  [][/\ (systemState' = STATE_SOAKING /\ systemState # STATE_SOAKING) =>
          phaseStartTime' = millis
     /\ (systemState = STATE_SOAKING /\ systemState' = STATE_SOAKING) =>
          IF pc = "loop"
            THEN phaseStartTime' <= phaseStartTime
            ELSE phaseStartTime' = phaseStartTime
     /\ (pc = "updateStateMachine" /\ systemState = STATE_SOAKING) =>
          systemState' = IF PhaseElapsed >= reflowSoakDuration
                           THEN STATE_REFLOW ELSE STATE_SOAKING
    ]_vars

(* C14, its case: the state-machine update has just ended the soak, at
   least reflowSoakDuration seconds after Soaking was entered; before it,
   an update 5 s into the soak left the state in Soaking. *)
C14_Witness ==
  /\ systemState = STATE_REFLOW
  /\ pc = "handleEncoder"
  /\ Called("transitionToState")
  /\ millis - operationStartTime >= reflowSoakDuration * 1000

(* C15: in every reachable state that is a running phase or STATE_COMPLETE,
   stopOperation returns with systemState = STATE_IDLE, the SSR state and
   pin off, ssrDutyCycle = 0, targetTemp = 0 and operatingMode = MODE_IDLE;
   and every step of loop() that calls stopOperation ends in that state. *)
C15_StopSynchronous ==
  /\ systemState \in HeatingPhases \cup {STATE_COMPLETE} =>
       LET r == stopOperation(G)
       IN  /\ r.systemState = STATE_IDLE
           /\ ~r.ssrState /\ ~r.pinSSR
           /\ r.ssrDutyCycle = 0
           /\ r.targetTemp = 0
           /\ r.operatingMode = MODE_IDLE
  /\ Called("stopOperation") =>
       /\ systemState = STATE_IDLE
       /\ ~ssrState /\ ~pinSSR
       /\ ssrDutyCycle = 0
       /\ targetTemp = 0
       /\ operatingMode = MODE_IDLE

(* C15, its case: a stop command has just stopped an operation whose heater
   had been on since its start. *)
C15_Witness ==
  /\ Called("stopOperation")
  /\ systemState = STATE_IDLE
  /\ heaterWasOn

\* C16: after the first trip the reported reason is latched: on every step
\* that starts and ends in STATE_ERROR lastError keeps its value, so a fault
\* detected while already in STATE_ERROR does not replace the first reason.
C16_ErrorLatched ==
  [][(systemState = STATE_ERROR /\ systemState' = STATE_ERROR) =>
       lastError' = lastError
    ]_vars

\* C17: Idle is terminal with respect to automatic transitions: a step that
\* starts in STATE_IDLE and confirms no start command ends in STATE_IDLE,
\* whatever ADC code the step reads.
C17_IdleTerminal ==
  [][(systemState = STATE_IDLE /\ ~CalledIn(called', "startOperation")) =>
       systemState' = STATE_IDLE
    ]_vars

\* C18: an updatePID call made while the reading is more than 10 degrees
\* below the target selects full power (ssrDutyCycle = 255) and leaves
\* pidIntegral as it was before the call.
C18_BangBangSkipsIntegral ==
  [][(/\ pc = "updatePID"
      /\ CalledIn(called', "updatePID")
      /\ currentTemp < targetTemp - Deg(PID_FULL_POWER_BAND)) =>
       /\ ssrDutyCycle' = SSR_DUTY_MAX
       /\ pidIntegral' = pidIntegral
    ]_vars

\* C19: the controller state is reset at the start of every operation and
\* touched nowhere else: a step from Idle to Preheating or Heating ends with
\* pidIntegral, pidLastError and pidOutput at 0, and a step that changes one
\* of the three either called updatePID or called startOperation from Idle.
C19_PidResetAtStart ==
  [][/\ (/\ systemState = STATE_IDLE
         /\ systemState' \in {STATE_PREHEATING, STATE_HEATING}) =>
          /\ CalledIn(called', "startOperation")
          /\ pidIntegral' = 0 /\ pidLastError' = 0 /\ pidOutput' = 0
     /\ <<pidIntegral, pidLastError, pidOutput>>' #
          <<pidIntegral, pidLastError, pidOutput>> =>
          \/ CalledIn(called', "updatePID")
          \/ systemState = STATE_IDLE /\ CalledIn(called', "startOperation")
    ]_vars

\* An operation has just been started after an earlier run had switched the
\* heater on and off again (the pin has fallen before, at a reading other than 0),
\* so updatePID had run with a duty above 0: the three are 0 again.
C19_Witness ==
  /\ Called("startOperation")
  /\ systemState \in {STATE_PREHEATING, STATE_HEATING}
  /\ offEdgeTemp # 0
  /\ pidIntegral = 0 /\ pidLastError = 0 /\ pidOutput = 0

\* C20: after every updatePID call the duty follows the three-way rule: 255
\* when the reading is more than 10 degrees below the target, 0 when the
\* reading is above the target, and otherwise the PID output scaled from
\* 0..100 to 0..255; and in every state 0 <= ssrDutyCycle <= 255,
\* 0 <= pidOutput <= 100 and -100 <= pidIntegral <= 100.
C20_DutyRuleAndRanges ==
  /\ []( /\ 0 <= ssrDutyCycle /\ ssrDutyCycle <= SSR_DUTY_MAX
         /\ 0 <= pidOutput /\ pidOutput <= Deg(PID_OUTPUT_MAX)
         /\ Deg(-PID_INTEGRAL_LIMIT) <= pidIntegral
         /\ pidIntegral <= Deg(PID_INTEGRAL_LIMIT) )
  /\ [][CalledIn(called', "updatePID") =>
          ssrDutyCycle' =
            IF currentTemp' < targetTemp' - Deg(PID_FULL_POWER_BAND)
              THEN SSR_DUTY_MAX
              ELSE IF currentTemp' > targetTemp'
                THEN 0
                ELSE ScaleDuty(pidOutput')
       ]_vars

\* updatePID has just run with the reading inside the 10-degree band below
\* the target and selected a duty strictly between off and full power.
C20_Witness ==
  /\ Called("updatePID")
  /\ currentTemp >= targetTemp - Deg(PID_FULL_POWER_BAND)
  /\ currentTemp <= targetTemp
  /\ 0 < ssrDutyCycle /\ ssrDutyCycle < SSR_DUTY_MAX
  /\ pidIntegral # 0

\* C21: whenever controlSSR has run, for every duty d in 0..255 the on-time
\* it computes is within 0..1000, an on-time above 0 is at least
\* PWM_MIN_ON_TIME, and d = 0 gives on-time 0; and if the call was made with
\* duty 0 the heater is off (state and pin).
C21_OnTimeRange ==
  Called("controlSSR") =>
    /\ \A d \in 0..SSR_DUTY_MAX :
         /\ 0 <= OnTime(d) /\ OnTime(d) <= SSR_PERIOD
         /\ OnTime(d) > 0 => OnTime(d) >= PWM_MIN_ON_TIME
         /\ d = 0 => OnTime(d) = 0
    /\ ssrDutyCycle = 0 => (~ssrState /\ ~pinSSR)

\* controlSSR has just switched the heater on for a duty whose plain on-time
\* d*1000/255 is below the minimum, so the minimum-on-time rule applied.
C21_Witness ==
  /\ Called("controlSSR")
  /\ ssrDutyCycle > 0
  /\ (ssrDutyCycle * SSR_PERIOD) \div SSR_DUTY_MAX < PWM_MIN_ON_TIME
  /\ OnTime(ssrDutyCycle) = PWM_MIN_ON_TIME
  /\ ssrState /\ pinSSR

\* C22: the on-time of a window is fixed when the window starts and the
\* heater is on exactly while the time elapsed in the window is below it, so
\* the heater is switched on only by a controlSSR call that finds the window
\* at its start: a step that raises the output leaves ssrCycleStart at the
\* current time.
C22_OnOnlyAtWindowStart ==
  [][(~ssrState /\ ssrState') => ssrCycleStart' = millis]_vars

\* C23: every step that takes the heater output from on to off, whichever
\* function performs it, leaves the pin low and (heaterOffTime, heaterOffTemp)
\* at the time and reading of that edge; every step that takes it from off to
\* on leaves the pin high and heaterWasOn set.
C23_EdgesRecorded ==
  [][/\ (ssrState /\ ~ssrState') =>
          /\ ~pinSSR'
          /\ heaterOffTime' = millis
          /\ heaterOffTemp' = currentTemp'
     /\ (~ssrState /\ ssrState') =>
          /\ pinSSR'
          /\ heaterWasOn'
    ]_vars

(* The ADC code the step read is a sensor fault as checkSensorFailure
   classifies it: above the open threshold, or below the short threshold
   with the heater having been on. *)
SensorFault ==
  /\ sampled' # NoSample
  /\ \/ sampled' > SENSOR_OPEN_THRESHOLD
     \/ sampled' < SENSOR_SHORT_THRESHOLD /\ heaterWasOn

\* C24: a readTemperature call whose raw code is a sensor fault raises the
\* trip in that same call (ERROR_SENSOR_FAIL, STATE_ERROR, heater off) and
\* leaves currentTemp, tempHistory and tempHistoryIndex as they were: the
\* faulty sample does not enter the filter.
C24_FaultySampleDropped ==
  [][SensorFault =>
       /\ CalledIn(called', "emergencyShutdown")
       /\ systemState' = STATE_ERROR
       /\ lastError' = ERROR_SENSOR_FAIL
       /\ ~ssrState' /\ ~pinSSR' /\ ssrDutyCycle' = 0
       /\ currentTemp' = currentTemp
       /\ tempHistory' = tempHistory
       /\ tempHistoryIndex' = tempHistoryIndex
    ]_vars

\* A shorted probe has just been read after the heater had been on, in a run
\* with a good reading: the trip is raised and the reading is the last good
\* value.
C24_Witness ==
  /\ sampled = ADC_SHORT
  /\ heaterWasOn
  /\ Called("emergencyShutdown")
  /\ systemState = STATE_ERROR
  /\ lastError = ERROR_SENSOR_FAIL
  /\ currentTemp > 0

\* C25: after every accepted sample the reading equals the arithmetic mean
\* of the accepted samples held in the ring buffer.  Fewer than
\* TEMP_SAMPLE_COUNT samples are read in these behaviours, so the samples
\* accepted so far are the first tempHistoryIndex entries of the buffer.
C25_MeanOfAccepted ==
  [][CalledIn(called', "filterTemperature:accept") =>
       currentTemp' =
         SumAll(tempHistory', tempHistoryIndex') \div tempHistoryIndex'
    ]_vars

(* The mean of the samples accepted so far: the first tempHistoryIndex
   entries of the buffer, fewer than TEMP_SAMPLE_COUNT being read in these
   behaviours. *)
BufferedMean == SumAll(tempHistory, tempHistoryIndex) \div tempHistoryIndex

\* C26: filterTemperature rejects a converted sample if and only if at least
\* one sample is buffered and the sample differs from the mean of the
\* buffered samples by more than TEMP_OUTLIER_THRESHOLD; a rejection leaves
\* tempHistory and tempHistoryIndex unchanged and returns the reading of the
\* previous call; with an empty buffer the sample is accepted.
C26_OutlierRejection ==
  [][(CalledIn(called', "filterTemperature:accept")
        \/ CalledIn(called', "filterTemperature:reject")) =>
       /\ CalledIn(called', "filterTemperature:reject") <=>
            /\ tempHistoryIndex > 0
            /\ abs(AdcToTemp(sampled') - BufferedMean) >
                 Deg(TEMP_OUTLIER_THRESHOLD)
       /\ CalledIn(called', "filterTemperature:reject") =>
            /\ tempHistory' = tempHistory
            /\ tempHistoryIndex' = tempHistoryIndex
            /\ currentTemp' = currentTemp
       /\ tempHistoryIndex = 0 => CalledIn(called', "filterTemperature:accept")
    ]_vars

(* The reading the last accepted update returned: the sum of the buffer over
   TEMP_SAMPLE_COUNT (524-531); a rejection leaves the buffer as it is. *)
LastAcceptedReading ==
  SumAll(tempHistory, TEMP_SAMPLE_COUNT) \div TEMP_SAMPLE_COUNT

\* C27: with raw samples inside the valid sensor range, the filtered reading
\* does not change by more than TEMP_OUTLIER_THRESHOLD between two
\* consecutive accepted filter updates: an accepted update that is not the
\* first since power-up returns a reading within 10 degrees of the reading
\* the previous accepted update returned.
C27_ReadingStepBounded ==
  [][(/\ CalledIn(called', "filterTemperature:accept")
      /\ tempHistoryIndex > 0
      /\ sampled' >= SENSOR_SHORT_THRESHOLD
      /\ sampled' <= SENSOR_OPEN_THRESHOLD) =>
       abs(currentTemp' - LastAcceptedReading) <= Deg(TEMP_OUTLIER_THRESHOLD)
    ]_vars

\* C28: a target override is accepted only while no fault is latched: an
\* MQTT message handled in STATE_ERROR leaves targetTemp and filamentTemp
\* unchanged.
C28_NoOverrideWhileFaulted ==
  [][(systemState = STATE_ERROR /\ CalledIn(called', "mqttCallback")) =>
       /\ targetTemp' = targetTemp
       /\ filamentTemp' = filamentTemp
    ]_vars

(* payloads of command/set_temp on both sides of every bound *)
OverrideValues ==
  {0 - 1, 0, FILAMENT_TEMP_MIN - 1, FILAMENT_TEMP_MIN, FILAMENT_MAX_TEMP,
   FILAMENT_MAX_TEMP + 1, REFLOW_MAX_TEMP, REFLOW_MAX_TEMP + 1}

(* The value lies inside the bounds of the current mode: at least 40 in
   filament mode and 0 otherwise, at most 260 in reflow mode and 100
   otherwise. *)
InsideBounds(value) ==
  /\ value >= (IF operatingMode = MODE_FILAMENT THEN FILAMENT_TEMP_MIN ELSE 0)
  /\ value <= (IF operatingMode = MODE_REFLOW
                 THEN REFLOW_MAX_TEMP ELSE FILAMENT_MAX_TEMP)

\* C29: a command/set_temp whose value is outside the bounds of the current
\* mode is rejected, not clamped: targetTemp and filamentTemp keep their
\* values; a value inside the bounds sets targetTemp to exactly that value.
\* Stated for the command as handleMQTT would apply it in every state in
\* which it is about to run, and for every MQTT step that changes
\* targetTemp or filamentTemp without stopping the operation.
C29_OverrideRejectedNotClamped ==
  /\ [](pc = "handleMQTT" =>
          \A value \in OverrideValues :
            LET r == mqttCallback(G0, "command/set_temp", value)
            IN  IF InsideBounds(value)
                  THEN r.targetTemp = Deg(value)
                  ELSE /\ r.targetTemp = targetTemp
                       /\ r.filamentTemp = filamentTemp)
  /\ [][(/\ CalledIn(called', "mqttCallback")
         /\ ~CalledIn(called', "stopOperation")
         /\ <<targetTemp, filamentTemp>>' # <<targetTemp, filamentTemp>>) =>
          \E value \in {SET_TEMP_LOW, SET_TEMP_HIGH} :
             /\ InsideBounds(value)
             /\ targetTemp' = Deg(value)
       ]_vars

\* A command/set_temp inside the bounds of filament mode has just been
\* applied during a filament operation: the target is exactly its value.
C29_Witness ==
  /\ Called("mqttCallback")
  /\ operatingMode = MODE_FILAMENT
  /\ systemState = STATE_HEATING
  /\ targetTemp = Deg(SET_TEMP_LOW)
  /\ filamentTemp = SET_TEMP_LOW

(* The step is the input that acknowledges a latched fault: a short press
   released (1192-1197) on a screen whose release reaches the test of
   STATE_ERROR at 1213. *)
AcknowledgeInput ==
  /\ pc = "handleButton"
  /\ buttonPressed /\ ~buttonPressed'
  /\ millis - buttonPressStart < BUTTON_LONG_PRESS_TIME
  /\ ~buttonLongPressHandled
  /\ currentScreen \notin
       {SCREEN_MAIN, SCREEN_CONFIRM_START, SCREEN_EDIT_VALUE}

\* C30: acknowledging takes effect only in STATE_ERROR, where it clears
\* lastError and returns to STATE_IDLE; the same input given when no fault is
\* latched leaves systemState, lastError, operatingMode, targetTemp, the
\* timestamps of the operation and the heater output unchanged, so that
\* acknowledging twice gives the state of acknowledging once.
C30_AcknowledgeIdempotent ==
  [][AcknowledgeInput =>
       IF systemState = STATE_ERROR
         THEN /\ lastError' = ERROR_NONE
              /\ systemState' = STATE_IDLE
         ELSE UNCHANGED <<systemState, lastError, operatingMode, targetTemp,
                          operationStartTime, phaseStartTime, heaterOffTime,
                          ssrState, pinSSR, ssrDutyCycle>>
    ]_vars

(***************************************************************************)
(* C31.  Shop thermostat: once a control update has seen a zone's valid    *)
(* temperature above its runaway limit (floor 20, air 30 degrees), the     *)
(* zone's relay is off after that update and after every later one, also   *)
(* under a manual override ON and with the temperature back below the      *)
(* limit, until resetThermalRunaway is called for the zone.  The relay     *)
(* changes in control updates only, so it is off in every state in which   *)
(* the zone has been seen above its limit and not been reset since.        *)
(***************************************************************************)
C31_RunawayLatched ==
  \A zone \in runawaySeen :
    /\ ~zoneState[zone].relayOn
    /\ zoneState[zone].thermalRunaway

(* A control update has just run for a zone that tripped earlier: by now its
   temperature is valid and below the limit and a manual override ON, given
   before this update, is in force; the relay is off. *)
C31_Witness ==
  \E zone \in runawaySeen :
    /\ readings.valid[SensorOf(zone)]
    /\ readings.temp[SensorOf(zone)] < FLOOR_THERMAL_RUNAWAY
    /\ zones[zone].enabled
    /\ zones[zone].override = OVERRIDE_ON
    /\ zones[zone].overrideTime > 0
    /\ lastControlUpdate = shopMillis
    /\ lastControlUpdate > zones[zone].overrideTime
    /\ ~zoneState[zone].relayOn

(***************************************************************************)
(* C32.  Shop thermostat: any two consecutive state changes of the same    *)
(* zone relay are at least MIN_CYCLE_TIME_MS (5 minutes) apart, whatever   *)
(* the readings, the manual overrides, the enable/disable commands and the *)
(* smart-pump decisions: for each zone the shortest time between two       *)
(* consecutive state changes so far is at least the minimum cycle time.    *)
(***************************************************************************)
C32_MinimumCycleTime ==
  \A zone \in Zones :
    changeGap[zone] = NoGap \/ changeGap[zone] >= MIN_CYCLE_TIME_MS

(***************************************************************************)
(* C33.  Shop thermostat: no zone relay stays on without a break for       *)
(* longer than MAX_RUNTIME_MS (4 hours) plus one control interval, whether *)
(* automatic control, a manual override ON or a mix of both holds it on.   *)
(* relayOnTime is the time of the relay's last off -> on change.           *)
(***************************************************************************)
C33_MaximumRuntime ==
  \A zone \in Zones :
    zoneState[zone].relayOn =>
      shopMillis - zoneState[zone].relayOnTime
        <= MAX_RUNTIME_MS + CONTROL_INTERVAL

(***************************************************************************)
(* C34.  Shop thermostat: a zone is disabled for sensor fault only after   *)
(* its sensor has returned invalid readings for more than                  *)
(* SENSOR_FAULT_TIMEOUT_MS (5 minutes): while the zone's reading is        *)
(* invalid, the zone's sensorFault flag is set only if the reading has     *)
(* been invalid for longer than that.  _sensorFaultTime is the time of the *)
(* first invalid reading since the last valid one.                         *)
(***************************************************************************)
C34_FaultOnlyAfterTimeout ==
  \A zone \in Zones :
    (zoneState[zone].sensorFault /\ ~readings.valid[SensorOf(zone)]) =>
      shopMillis - sensorFaultTime[SensorOf(zone)] > SENSOR_FAULT_TIMEOUT_MS

(***************************************************************************)
(* C35.  Reflow oven: in STATE_IDLE the heater is never energised: after   *)
(* any sequence of start, stop, trip, acknowledge, MQTT, web and menu      *)
(* events, systemState = STATE_IDLE implies ssrDutyCycle = 0 and           *)
(* ssrState = false.                                                       *)
(***************************************************************************)
C35_IdleHeaterOff ==
  systemState = STATE_IDLE => (ssrDutyCycle = 0 /\ ~ssrState)

(* The oven is idle again after an operation in which the heater was on. *)
C35_Witness ==
  /\ systemState = STATE_IDLE
  /\ onSinceStart
  /\ ssrDutyCycle = 0
  /\ ~ssrState

(***************************************************************************)
(* C36.  Reflow oven: throughout the Cooling phase the heater stays off:   *)
(* from the pass after Reflow -> Cooling until the phase is left,          *)
(* ssrDutyCycle = 0 and controlSSR never switches the output on, whatever  *)
(* MQTT and web commands arrive during cooling and for every reading at or *)
(* above 0 degrees.                                                        *)
(***************************************************************************)
C36_CoolingHeaterOff ==
  /\ [](systemState = STATE_COOLING => ssrDutyCycle = 0)
  /\ [][(systemState = STATE_COOLING /\ ~ssrState) => ~ssrState']_vars

(* C37: an operation does not stay in a heating phase past the timeout of
   its mode: a safety check that finds the operation in Preheating, Soaking,
   Reflow, Cooling, Heating or Maintaining with the elapsed seconds over the
   limit of the mode ends in STATE_ERROR, whatever the reading is, so after
   the safety check of every pass an operation that is still in one of
   these phases has not exceeded its limit. *)
C37_LeavesHeatingPhases ==
  /\ [][(AtSafetyCheck /\ systemState \in HeatingPhases /\ Elapsed > Limit)
          => systemState' = STATE_ERROR]_vars
  /\ []((pc = "updatePID" /\ systemState \in HeatingPhases)
          => Elapsed <= Limit)

(* C37, its case: a reflow operation ran past its timeout in a heating phase
   and the safety check of that pass has ended it. *)
C37_Witness ==
  /\ pc = "updatePID"
  /\ Called("emergencyShutdown")
  /\ systemState = STATE_ERROR
  /\ lastError = ERROR_TIMEOUT
  /\ operatingMode = MODE_REFLOW
  /\ Elapsed > Limit

(***************************************************************************)
(* C38.  Reflow oven: the runaway baseline is never stale.  Whenever       *)
(* checkThermalRunaway gets past its first test (state other than Idle and *)
(* Faulted, heaterWasOn true, heater off), the output has been high since  *)
(* the last start, and heaterOffTime and heaterOffTemp are the time and    *)
(* the reading of the output's last on -> off edge, which therefore lies   *)
(* in the current operation: they are not left over from an earlier        *)
(* operation or from power-up, after any sequence of start, stop, trip and *)
(* acknowledge.                                                            *)
(***************************************************************************)
C38_BaselineOfCurrentOperation ==
  (AtSafetyCheck /\ heaterWasOn /\ ~ssrState) =>
    /\ onSinceStart
    /\ ~pinSSR
    /\ heaterOffTime = offEdgeTime
    /\ heaterOffTemp = offEdgeTemp

(* A safety check compares the reading with the baseline: the heater has
   been off for more than THERMAL_RUNAWAY_TIME after having been on in this
   operation. *)
C38_Witness ==
  /\ AtSafetyCheck
  /\ heaterWasOn
  /\ ~ssrState
  /\ onSinceStart
  /\ millis - heaterOffTime > THERMAL_RUNAWAY_TIME
  /\ heaterOffTime = offEdgeTime
  /\ heaterOffTemp = offEdgeTemp
  /\ heaterOffTemp > 0

(***************************************************************************)
(* C39.  Reflow oven: the filter cannot stay stuck: an input that holds a  *)
(* constant in-range value v gives the filtered reading v after finitely   *)
(* many filter updates, whatever the ring buffer held before.  The update  *)
(* is a function of the buffer, its index and the sample, so a sample that *)
(* leaves the buffer and the index as they were is treated the same way at *)
(* every later update; the statement therefore requires that an update     *)
(* with an in-range sample that leaves the buffer and the index unchanged  *)
(* returns that sample's value as the reading.                             *)
(***************************************************************************)
C39_FilterNotStuck ==
  \A adc \in ThermalAdcValues :
    LET r == readTemperature(G0, adc)
    IN  (/\ adc >= SENSOR_SHORT_THRESHOLD
         /\ adc <= SENSOR_OPEN_THRESHOLD
         /\ r.tempHistory = tempHistory
         /\ r.tempHistoryIndex = tempHistoryIndex)
          => r.currentTemp = AdcToTemp(adc)

=============================================================================
